---- MODULE Spec2Model ----
(***************************************************************************)
(* FinBot: the background ingestion worker (runIngestionCycle), the RSS    *)
(* connector (fetchFeed, fetchAllFeeds, sanitizeText, generateHash) and    *)
(* the insight engine (callLLM, generateEventCard, generateInsight, the    *)
(* mock generators, adjustConfidence, calculateFreshnessScore).            *)
(*                                                                         *)
(* Text is a sequence of character codes; a timestamp is an integer; a     *)
(* JavaScript object is a function from field names to values.             *)
(***************************************************************************)
EXTENDS Integers, Sequences, FiniteSets, TLC

(***************************************************************************)
(* Bounds of the model.                                                    *)
(***************************************************************************)
\* number of times the worker's timer (and the initial call) invokes runIngestionCycle
MaxCalls == 2

(***************************************************************************)
(* Program constants.                                                      *)
(***************************************************************************)
\* newsItems = [...newItems, ...newsItems].slice(0, 500)
NEWS_RETENTION == 500
\* eventCards = eventCards.slice(0, 100)
CARD_RETENTION == 100
\* insights = insights.slice(0, 50)
INSIGHT_RETENTION == 50
\* newItems.slice(0, 20)
CARD_WINDOW == 20
\* eventCards.slice(0, 5)
INSIGHT_CARDS == 5
\* clean.substring(0, 5000)
MAX_TEXT == 5000

(***************************************************************************)
(* Generic helpers.                                                        *)
(***************************************************************************)
Min(a, b) == IF a < b THEN a ELSE b

Max(a, b) == IF a > b THEN a ELSE b

\* Array.prototype.slice(0, n)
Take(s, n) == SubSeq(s, 1, Min(n, Len(s)))

\* the empty object {}
EmptyObj == [f \in {} |-> 0]

\* the flattening of a sequence of sequences, in order
RECURSIVE Flatten(_)
Flatten(ss) == IF ss = <<>> THEN <<>> ELSE Head(ss) \o Flatten(Tail(ss))

\* the sequence s with every element computed (the same sequence)
Seq1(s) == SubSeq(s, 1, Len(s))

\* Array.prototype.sort with the comparator (a, b) => b.publishedAt - a.publishedAt:
\* descending by publishedAt, stable (equal keys keep their input order)
SortNewestFirst(s) ==
    LET n == Len(s)
        rank == Seq1([i \in 1..n |-> Cardinality({j \in 1..n :
                       \/ s[j].publishedAt > s[i].publishedAt
                       \/ s[j].publishedAt = s[i].publishedAt /\ j < i}) + 1])
    IN  Seq1([r \in 1..n |-> s[CHOOSE i \in 1..n : rank[i] = r]])

(***************************************************************************)
(* RSSConnector: text sanitisation and the content hash.                   *)
(***************************************************************************)
\* case folding of the regular expressions' i flag (A-Z onto a-z)
Lower(c) == IF c >= 65 /\ c <= 90 THEN c + 32 ELSE c

\* does pat occur in s at position i, ignoring letter case
MatchAt(s, i, pat) ==
    /\ i + Len(pat) - 1 <= Len(s)
    /\ \A k \in 1..Len(pat) : Lower(s[i + k - 1]) = Lower(pat[k])

\* String.prototype.replace(/p1|p2|.../gi, repl): one left-to-right pass; at each
\* position the first alternative that matches is replaced and the scan resumes
\* after the match, so text produced by a replacement is never scanned again
RECURSIVE ReplaceFrom(_, _, _, _)
ReplaceFrom(s, i, pats, repl) ==
    IF i > Len(s) THEN <<>>
    ELSE LET hits == {k \in 1..Len(pats) : MatchAt(s, i, pats[k])}
         IN  IF hits = {}
             THEN <<s[i]>> \o ReplaceFrom(s, i + 1, pats, repl)
             ELSE LET k == CHOOSE k \in hits : \A j \in hits : k <= j
                  IN  repl \o ReplaceFrom(s, i + Len(pats[k]), pats, repl)

ReplaceAll(s, pats, repl) == ReplaceFrom(s, 1, pats, repl)

\* /\[INST\]|\[\/INST\]|<\|im_start\|>|<\|im_end\|>/gi
DelimiterTokens ==
    << <<91, 73, 78, 83, 84, 93>>,
       <<91, 47, 73, 78, 83, 84, 93>>,
       <<60, 124, 105, 109, 95, 115, 116, 97, 114, 116, 124, 62>>,
       <<60, 124, 105, 109, 95, 101, 110, 100, 124, 62>> >>

\* /ignore previous instructions/gi
IgnorePhrase ==
    <<105, 103, 110, 111, 114, 101, 32, 112, 114, 101, 118, 105, 111, 117, 115, 32,
      105, 110, 115, 116, 114, 117, 99, 116, 105, 111, 110, 115>>

\* /you are now/gi
YouAreNowPhrase == <<121, 111, 117, 32, 97, 114, 101, 32, 110, 111, 119>>

\* '[FILTERED]'
Filtered == <<91, 70, 73, 76, 84, 69, 82, 69, 68, 93>>

IsLetter(c) == (c >= 65 /\ c <= 90) \/ (c >= 97 /\ c <= 122)

IsSpace(c) == c \in {9, 10, 11, 12, 13, 32}

\* sanitizeHtml(text, { allowedTags: [], allowedAttributes: {} }): every tag (a '<'
\* followed by a letter, '/' or '!', up to the closing '>') is dropped, its text kept
RECURSIVE StripTagsFrom(_, _)
StripTagsFrom(s, i) ==
    IF i > Len(s) THEN <<>>
    ELSE IF s[i] = 60 /\ i < Len(s) /\ (IsLetter(s[i + 1]) \/ s[i + 1] \in {47, 33})
         THEN LET closes == {j \in (i + 1)..Len(s) : s[j] = 62}
              IN  IF closes = {} THEN <<>>
                  ELSE StripTagsFrom(s, (CHOOSE j \in closes : \A k \in closes : j <= k) + 1)
         ELSE <<s[i]>> \o StripTagsFrom(s, i + 1)

StripTags(s) == StripTagsFrom(s, 1)

\* String.prototype.trim
Trim(s) ==
    LET keep == {i \in 1..Len(s) : ~IsSpace(s[i])}
    IN  IF keep = {} THEN <<>>
        ELSE SubSeq(s, CHOOSE i \in keep : \A j \in keep : i <= j,
                       CHOOSE i \in keep : \A j \in keep : i >= j)

\* RSSConnector.sanitizeText
sanitizeText(text) ==
    IF text = <<>> THEN <<>>
    ELSE LET clean0 == StripTags(text)
             clean1 == ReplaceAll(clean0, DelimiterTokens, <<>>)
             clean2 == ReplaceAll(clean1, <<IgnorePhrase>>, Filtered)
             clean3 == ReplaceAll(clean2, <<YouAreNowPhrase>>, Filtered)
         IN  Trim(Take(clean3, MAX_TEXT))

\* RSSConnector.generateHash: the first 16 hex digits of the SHA-256 of the content.
\* The digest is a function of the content alone and is taken as collision free, so
\* it is represented by the content it was computed from.
generateHash(content) == [sha256 |-> content]

(***************************************************************************)
(* RSSConnector: the feeds and the fetch.                                  *)
(***************************************************************************)
\* DEFAULT_FEEDS, in their order (the url is the feed's position)
DEFAULT_FEEDS ==
    << [name |-> "BBC Business",     category |-> "macro",       credibility |-> 85],
       [name |-> "NYT Business",     category |-> "macro",       credibility |-> 85],
       [name |-> "Reuters Business", category |-> "macro",       credibility |-> 90],
       [name |-> "Financial Times",  category |-> "macro",       credibility |-> 90],
       [name |-> "MarketWatch",      category |-> "markets",     credibility |-> 75],
       [name |-> "NYT World",        category |-> "geopolitics", credibility |-> 85],
       [name |-> "BBC World",        category |-> "geopolitics", credibility |-> 85],
       [name |-> "Federal Reserve",  category |-> "rates",       credibility |-> 100],
       [name |-> "ECB",              category |-> "rates",       credibility |-> 100],
       [name |-> "CoinTelegraph",    category |-> "crypto",      credibility |-> 60],
       [name |-> "CoinDesk",         category |-> "crypto",      credibility |-> 65],
       [name |-> "OilPrice",         category |-> "commodities", credibility |-> 70] >>

\* an entry of a parsed feed without pubDate
NoDate == 0

\* what parser.parseURL does for one feed: it throws (HTTP error, timeout after the
\* parser's 10 s, malformed XML), or it resolves with the feed's entries
FeedError == [ok |-> FALSE, items |-> <<>>]

FeedOk(entries) == [ok |-> TRUE, items |-> entries]

\* RSSConnector.fetchFeed: one news item per entry, or [] when the fetch threw
fetchFeed(k, outcome, now) ==
    IF ~outcome.ok THEN <<>>
    ELSE Seq1([i \in 1..Len(outcome.items) |->
            LET item == outcome.items[i]
            IN  [title       |-> sanitizeText(item.title),
                 url         |-> item.link,
                 publishedAt |-> IF item.pubDate # NoDate THEN item.pubDate ELSE now,
                 rawText     |-> sanitizeText(item.contentSnippet),
                 sourceName  |-> DEFAULT_FEEDS[k].name,
                 sourceUrl   |-> k,
                 category    |-> DEFAULT_FEEDS[k].category,
                 credibility |-> DEFAULT_FEEDS[k].credibility,
                 contentHash |-> generateHash(item.title \o item.link)]])

\* the merged items left in feed order
fetchAllFeeds_NoSort(outcomes, now) ==
    Flatten(Seq1([k \in 1..Len(DEFAULT_FEEDS) |-> fetchFeed(k, outcomes[k], now)]))

\* RSSConnector.fetchAllFeeds: the feeds' items in feed order (the batches of 5 are
\* appended one after the other), then sorted newest first. All fetches complete at
\* the time now; BatchSpec follows a call fetch by fetch.
fetchAllFeeds(outcomes, now) ==
    SortNewestFirst(Flatten(Seq1([k \in 1..Len(DEFAULT_FEEDS) |-> fetchFeed(k, outcomes[k], now)])))

(***************************************************************************)
(* Prompt templates (prompts/insights).                                    *)
(***************************************************************************)
\* const PROMPT_VERSION = '1.0.0'
PROMPT_VERSION == "1.0.0"

\* the fields of the JSON structure EVENT_CARD_PROMPT asks for
EventCardSchema ==
    {"title", "summary", "whyItMatters", "impactedRegions", "impactedSectors",
     "impactedAssets", "confidence", "confidenceRationale", "sourceAgreement", "caveats"}

\* the fields of the JSON structure INSIGHT_PROMPT asks for
InsightSchema ==
    {"title", "theme", "thesis", "evidence", "counterArguments", "whatWouldChangeMyMind",
     "scenarios", "confidence", "confidenceFactors", "riskLevel", "horizon",
     "potentialImplications", "dataQualityNote"}

\* buildEventCardPrompt: the template with one block per news item
buildEventCardPrompt(newsItems) ==
    [template |-> "EVENT_CARD_PROMPT",
     blocks   |-> [i \in 1..Len(newsItems) |->
                     [title       |-> newsItems[i].title,
                      sourceName  |-> newsItems[i].sourceName,
                      credibility |-> newsItems[i].credibility,
                      publishedAt |-> newsItems[i].publishedAt,
                      url         |-> newsItems[i].url,
                      content     |-> Take(newsItems[i].rawText, 500)]]]

\* buildInsightPrompt: the template with the serialised snapshot and one block per card
\* (a property the card lacks is printed as "undefined")
buildInsightPrompt(marketData, eventCards) ==
    [template |-> "INSIGHT_PROMPT",
     market   |-> marketData,
     blocks   |-> [i \in 1..Len(eventCards) |->
                     [f \in {"title", "summary", "whyItMatters", "confidence"} |->
                        f \in DOMAIN eventCards[i]]]]

\* buildAlertPrompt: the template with one line per item
buildAlertPrompt(items) ==
    [template |-> "ALERT_DETECTION_PROMPT",
     blocks   |-> [i \in 1..Len(items) |->
                     [title |-> items[i].title, sourceName |-> items[i].sourceName,
                      publishedAt |-> items[i].publishedAt]]]

(***************************************************************************)
(* InsightEngine: the generative backend and callLLM.                      *)
(***************************************************************************)
\* the constructor: openai is null without OPENAI_API_KEY; the model id is
\* OPENAI_MODEL or 'gpt-4o-mini'
DefaultModel == "gpt-4o-mini"

NewEngine(apiKeySet, envModel) ==
    [openai |-> apiKeySet, model |-> IF envModel # "" THEN envModel ELSE DefaultModel]

\* InsightEngine.isEnabled
isEnabled(eng) == eng.openai

\* JSON.parse of a response text: it throws on text that is not JSON; a JSON text
\* denotes an object or another JSON value (here: null)
JSONParse(text) == [ok |-> text.json, value |-> text.value]

\* the object spread {...v}: the own properties of an object, nothing for null
Spread(v) == IF v.kind = "object" THEN v.obj ELSE EmptyObj

\* the result null of callLLM
Null == [isNull |-> TRUE]

\* InsightEngine.callLLM: null when the backend is not configured, when the request
\* throws (transport error, API error, a completion without choices) and when the
\* response text is not JSON; else content, raw text, model id and template version
callLLM(eng, prompt, reply) ==
    IF ~eng.openai THEN Null
    ELSE IF reply.kind # "completion" THEN Null
    ELSE LET parsed == JSONParse(reply.text)
         IN  IF ~parsed.ok THEN Null
             ELSE [isNull        |-> FALSE,
                   content       |-> parsed.value,
                   raw           |-> reply.text,
                   model         |-> eng.model,
                   promptVersion |-> PROMPT_VERSION]

(***************************************************************************)
(* InsightEngine: the fallback generators.                                 *)
(***************************************************************************)
\* obj with obj[key] = val (an assignment obj.key = val, or a later property of an
\* object literal, which wins over an earlier one of the same name)
Put(obj, key, val) ==
    [f \in DOMAIN obj \cup {key} |-> IF f = key THEN val ELSE obj[f]]

\* an async function's outcome
Resolved(v) == [status |-> "resolved", value |-> v]

Rejected(e) == [status |-> "rejected", error |-> e]

\* the snapshot variable before the first fetch (marketData = null)
NoMarketData == [isNull |-> TRUE]

\* Number.prototype.toFixed(2) of the magnitude of a ratio num/den, in hundredths
AbsFixed2(num, den) ==
    LET n == IF num < 0 THEN -num ELSE num
        d == IF den < 0 THEN -den ELSE den
    IN  (2 * 100 * n + d) \div (2 * d)

\* generateMockEventCard reads newsItems[0].title: a TypeError on an empty list
mockEventCardThrows(newsItems) == Len(newsItems) = 0

\* InsightEngine.generateMockEventCard
generateMockEventCard(newsItems, now) ==
    LET mainItem == newsItems[1]
    IN  [title               |-> mainItem.title,
         summary             |-> [title |-> mainItem.title, sources |-> Len(newsItems)],
         whyItMatters        |-> "Unable to generate AI analysis.",
         impactedRegions     |-> <<"Global">>,
         impactedSectors     |-> <<mainItem.category>>,
         impactedAssets      |-> [equities |-> <<"Broad market">>, crypto |-> <<>>,
                                  forex |-> <<>>, commodities |-> <<>>, rates |-> <<>>],
         confidence          |-> 30,
         confidenceRationale |-> "Low confidence due to lack of AI analysis",
         sourceAgreement     |-> [sources |-> Len(newsItems)],
         caveats             |-> <<"AI analysis unavailable">>,
         _meta               |-> [model         |-> "mock",
                                  promptVersion |-> PROMPT_VERSION,
                                  generatedAt   |-> now]]

\* marketData?.markets?.<symbol>
HasQuote(marketData, sym) == ~marketData.isNull /\ sym \in DOMAIN marketData.markets

\* InsightEngine.generateMockInsight (prices in hundredths, changePercent a ratio)
generateMockInsight(marketData, eventCards, now) ==
    LET hasSpy == HasQuote(marketData, "SPY")
        hasVix == HasQuote(marketData, "VIX")
        spyCp  == IF hasSpy THEN marketData.markets["SPY"].changePercent
                  ELSE [num |-> 0, den |-> 1]
        uncertain == [direction |-> "uncertain", rationale |-> "AI analysis required",
                      caveats |-> "Basic data only"]
    IN  [title      |-> <<77, 97, 114, 107, 101, 116>>,
         theme      |-> "general",
         thesis     |-> << [direction |-> IF (spyCp.num > 0 /\ spyCp.den > 0)
                                             \/ (spyCp.num < 0 /\ spyCp.den < 0)
                                          THEN "up" ELSE "down",
                            percent   |-> AbsFixed2(spyCp.num, spyCp.den)],
                           [na         |-> ~hasVix,
                            price      |-> IF hasVix THEN marketData.markets["VIX"].price ELSE 0,
                            volatility |-> IF hasVix /\ marketData.markets["VIX"].price > 2500
                                           THEN "elevated" ELSE "normal"],
                           [events |-> Len(eventCards)] >>,
         evidence   |-> <<>>,
         counterArguments |-> <<"This is a basic technical summary only",
                                "Full AI analysis requires OpenAI API configuration">>,
         whatWouldChangeMyMind |-> "Enable OpenAI API for comprehensive analysis",
         scenarios  |-> [base |-> "Unable to generate", bull |-> "Unable to generate",
                         bear |-> "Unable to generate"],
         confidence |-> 20,
         confidenceFactors |-> [increases |-> <<"Configure OpenAI API">>,
                                decreases |-> <<"basic technical indicators only">>],
         riskLevel  |-> "unknown",
         horizon    |-> "short",
         potentialImplications |-> [equities |-> uncertain, crypto |-> uncertain,
                                    forex |-> uncertain, commodities |-> uncertain,
                                    rates |-> uncertain],
         dataQualityNote |-> "AI analysis unavailable",
         _meta      |-> [model         |-> "mock",
                         promptVersion |-> PROMPT_VERSION,
                         generatedAt   |-> now]]

(***************************************************************************)
(* InsightEngine: generateEventCard, generateInsight, detectAlerts.        *)
(***************************************************************************)
\* the provenance written first, so that a _meta of the backend's answer replaces it
generateEventCard_MetaFirst(eng, newsItems, reply, now) ==
    LET result == callLLM(eng, buildEventCardPrompt(newsItems), reply)
        meta   == [model |-> result.model, promptVersion |-> result.promptVersion,
                   generatedAt |-> now]
    IN  IF result.isNull
        THEN IF mockEventCardThrows(newsItems) THEN Rejected("TypeError")
             ELSE Resolved(generateMockEventCard(newsItems, now))
        ELSE Resolved([f \in DOMAIN Spread(result.content) \cup {"_meta"} |->
                         IF f \in DOMAIN Spread(result.content)
                         THEN Spread(result.content)[f] ELSE meta])

\* InsightEngine.generateEventCard
generateEventCard(eng, newsItems, reply, now) ==
    LET prompt == buildEventCardPrompt(newsItems)
        result == callLLM(eng, prompt, reply)
    IN  IF result.isNull
        THEN IF mockEventCardThrows(newsItems) THEN Rejected("TypeError")
             ELSE Resolved(generateMockEventCard(newsItems, now))
        ELSE Resolved(Put(Spread(result.content), "_meta",
                          [model         |-> result.model,
                           promptVersion |-> result.promptVersion,
                           generatedAt   |-> now]))

\* InsightEngine.generateInsight
\* the fallback insight handed out with the confidence of a generated one
generateInsight_ConfidentFallback(eng, marketData, eventCards, reply, now) ==
    LET result == callLLM(eng, buildInsightPrompt(marketData, eventCards), reply)
    IN  IF result.isNull
        THEN Resolved([generateMockInsight(marketData, eventCards, now)
                          EXCEPT !["confidence"] = 65])
        ELSE Resolved(Put(Spread(result.content), "_meta",
                          [model |-> result.model, promptVersion |-> result.promptVersion,
                           generatedAt |-> now, rawResponse |-> result.raw]))

generateInsight(eng, marketData, eventCards, reply, now) ==
    LET prompt == buildInsightPrompt(marketData, eventCards)
        result == callLLM(eng, prompt, reply)
    IN  IF result.isNull
        THEN Resolved(generateMockInsight(marketData, eventCards, now))
        ELSE Resolved(Put(Spread(result.content), "_meta",
                          [model         |-> result.model,
                           promptVersion |-> result.promptVersion,
                           generatedAt   |-> now,
                           rawResponse   |-> result.raw]))

\* InsightEngine.detectAlerts
detectAlerts(eng, items, reply) ==
    LET result == callLLM(eng, buildAlertPrompt(items), reply)
    IN  IF result.isNull THEN Resolved([kind |-> "object", obj |-> [alerts |-> <<>>]])
        ELSE Resolved(result.content)

(***************************************************************************)
(* The environment of the worker: what the feeds, the quote provider and   *)
(* the generative backend can answer.                                      *)
(***************************************************************************)
\* a feed entry as rss-parser delivers it
Entry(title, link, pubDate) ==
    [title |-> title, link |-> link, pubDate |-> pubDate, contentSnippet |-> <<>>]

\* "Fed Holds Rates Steady" at https://x/fed
FedEntry(pubDate) ==
    Entry(<<70, 101, 100, 32, 72, 111, 108, 100, 115, 32, 82, 97, 116, 101, 115, 32,
            83, 116, 101, 97, 100, 121>>,
          <<104, 116, 116, 112, 115, 58, 47, 47, 120, 47, 102, 101, 100>>, pubDate)

\* the k-th of a long run of distinct entries, published k ticks ago
BulkEntry(k) == Entry(<<1000 + k>>, <<47, 2000 + k>>, 0 - k)

Bulk(lo, hi) == Seq1([i \in 1..(hi - lo + 1) |-> BulkEntry(lo + i - 1)])

AllFeedsFail == Seq1([k \in 1..Len(DEFAULT_FEEDS) |-> FeedError])

\* the answers of the 12 feeds in one fetch: every feed fails; the same story from two
\* feeds plus an undated one; the story once; 300 entries; 520 entries from two feeds
\* of different categories, those of the second the older ones
FeedScenarios ==
    << AllFeedsFail,
       [AllFeedsFail EXCEPT ![1] = FeedOk(<<FedEntry(0 - 3), BulkEntry(7)>>),
                            ![2] = FeedOk(<<FedEntry(0 - 3)>>),
                            ![10] = FeedOk(<<Entry(<<66, 84, 67>>, <<47, 98>>, NoDate)>>)],
       [AllFeedsFail EXCEPT ![8] = FeedOk(<<FedEntry(0 - 2)>>),
                            ![5] = FeedOk(<<BulkEntry(8)>>)],
       [AllFeedsFail EXCEPT ![3] = FeedOk(Bulk(1, 300))],
       [AllFeedsFail EXCEPT ![3] = FeedOk(Bulk(1, 300)),
                            ![5] = FeedOk(Bulk(301, 520))] >>

\* the feeds' merged items for scenario s fetched at time now
FeedTable ==
    Seq1([s \in 1..Len(FeedScenarios) |->
            Seq1([now \in 1..MaxCalls |-> fetchAllFeeds(FeedScenarios[s], now)])])

\* a quote as fetchYahooQuote builds it (prices in hundredths; changePercent is the
\* ratio ((price - previousClose) / previousClose) * 100, kept as numerator and
\* denominator)
Quote(sym, price, previousClose) ==
    [symbol        |-> sym,
     price         |-> price,
     previousClose |-> previousClose,
     change        |-> price - previousClose,
     changePercent |-> [num |-> (price - previousClose) * 100, den |-> previousClose]]

\* what fetchAllMarkets resolves with at time now: a snapshot holding the symbols
\* whose fetch succeeded (none; SPY up with a calm VIX)
MarketSnapshots(now) ==
    << [isNull |-> FALSE, timestamp |-> now, markets |-> EmptyObj],
       [isNull |-> FALSE, timestamp |-> now,
        markets |-> [s \in {"SPY", "VIX"} |->
                       IF s = "SPY" THEN Quote("SPY", 50234, 50009)
                       ELSE Quote("VIX", 1450, 1498)]] >>

\* a news item for the sample answers of the backend
SampleItem == fetchFeed(8, FeedOk(<<FedEntry(0 - 1)>>), 1)[1]

\* JSON texts the backend can answer with
JsonObject(obj) == [json |-> TRUE, value |-> [kind |-> "object", obj |-> obj]]

JsonNull == [json |-> TRUE, value |-> [kind |-> "null", obj |-> EmptyObj]]

NotJson == [json |-> FALSE, value |-> [kind |-> "null", obj |-> EmptyObj]]

\* an answer with every field of the event-card structure
FullCardObj ==
    LET m == generateMockEventCard(<<SampleItem>>, 0)
    IN  [f \in EventCardSchema |->
           IF f = "confidence" THEN 75
           ELSE IF f = "title" THEN <<70, 101, 100>> ELSE m[f]]

\* an answer with every field of the insight structure
FullInsightObj ==
    LET m == generateMockInsight(NoMarketData, <<>>, 0)
    IN  [f \in InsightSchema |->
           IF f = "confidence" THEN 65
           ELSE IF f = "theme" THEN "rate_policy"
           ELSE IF f = "riskLevel" THEN "medium" ELSE m[f]]

\* what openai.chat.completions.create does: it throws, it resolves with a completion
\* that has no choices, or it resolves with a completion carrying a response text
Throws == [kind |-> "throws"]

NoChoices == [kind |-> "nochoices"]

Completion(text) == [kind |-> "completion", text |-> text]

\* the answers considered in the worker's cycles
WorkerCardReplies == <<Throws, Completion(JsonObject(FullCardObj))>>

WorkerInsightReplies == <<Throws, Completion(JsonObject(FullInsightObj))>>

WorkerAlertReplies == <<Throws, Completion(JsonObject([alerts |-> <<>>]))>>

(***************************************************************************)
(* The background worker: state and runIngestionCycle.                     *)
(***************************************************************************)
VARIABLES
    engine,      \* the InsightEngine instance (openai client or null, model id)
    newsItems,   \* let newsItems = []
    marketData,  \* let marketData = null
    eventCards,  \* let eventCards = []
    insights,    \* let insights = []
    isRunning,   \* let isRunning = false
    clock,       \* Date.now(), in timer periods
    calls,       \* number of calls of runIngestionCycle made so far
    cyc,         \* per call: where the call stands (pc) and its local variables
    gen,         \* a call of generateEventCard / generateInsight by another caller
    calc,        \* an application of one of the engine's pure functions
    conn,        \* an application of a function of the RSS or the market connector
    route,       \* the markets route: its cache, the time and its requests
    batch,       \* a call of fetchAllFeeds / fetchAllMarkets followed fetch by fetch
    stores       \* the events route's newsItems and eventCards, the insights route's
                 \* insightsStore, and the number of requests made to the two routes

workerVars == <<engine, newsItems, marketData, eventCards, insights, isRunning, clock, calls, cyc>>

vars == <<workerVars, gen, calc, conn, route, batch, stores>>

\* a call that has not been made, or whose function body has returned
NoLocals(pc) == [pc |-> pc, newItems |-> <<>>, todo |-> <<>>, args |-> <<>>]

\* the calls whose cycle is in progress (between isRunning = true and the finally block)
Active == {i \in 1..MaxCalls : cyc[i].pc \in {"feeds", "markets", "cards", "insight", "alerts"}}

\* the guard left out
AlreadyRunning_NoGuard(running) == FALSE

\* if (isRunning) { logger.warn(...); return; }
AlreadyRunning(running) == running

\* freshNews.filter(item => !newsItems.some(existing => existing.contentHash === item.contentHash))
Dedup(freshNews, held) ==
    LET heldHashes == {held[j].contentHash : j \in 1..Len(held)}
    IN  SelectSeq(freshNews, LAMBDA item : item.contentHash \notin heldHashes)

\* the cap taken from the wrong end: slice(-500)
Retain_FromEnd(newItems, held) ==
    LET all == newItems \o held
    IN  SubSeq(all, Len(all) - Min(NEWS_RETENTION, Len(all)) + 1, Len(all))

\* [...newItems, ...newsItems].slice(0, 500)
Retain(newItems, held) == Take(newItems \o held, NEWS_RETENTION)

\* a group opened for every item instead of every category
CategoriesOf_PerItem(items) == Seq1([i \in 1..Len(items) |-> items[i].category])

\* the keys of grouped, in insertion order: the categories of the items, each at its
\* first occurrence
CategoriesOf(items) ==
    LET firsts == {i \in 1..Len(items) :
                      \A j \in 1..(i - 1) : items[j].category # items[i].category}
    IN  Seq1([k \in 1..Cardinality(firsts) |->
                items[CHOOSE i \in firsts : Cardinality({j \in firsts : j < i}) = k - 1].category])

\* grouped[category]
GroupOf(items, category) == SelectSeq(items, LAMBDA item : item.category = category)

\* the replies the backend can give to a request of the worker (no request is made
\* when the backend is not configured)
ReplyChoices(replies) == IF engine.openai THEN 1..Len(replies) ELSE {1}

\* the call of runIngestionCycle made at start() and by every firing of the interval
\* timer, while a cycle is running: logged and skipped
CallSkipped ==
    /\ calls < MaxCalls
    /\ AlreadyRunning(isRunning)
    /\ calls' = calls + 1
    /\ clock' = clock + 1
    /\ cyc' = [cyc EXCEPT ![calls + 1] = NoLocals("skipped")]
    /\ UNCHANGED <<engine, newsItems, marketData, eventCards, insights, isRunning, gen, calc, conn, route, batch, stores>>

\* the same call while no cycle is running: the cycle starts and awaits fetchAllFeeds
CallStarts ==
    /\ calls < MaxCalls
    /\ ~AlreadyRunning(isRunning)
    /\ calls' = calls + 1
    /\ clock' = clock + 1
    /\ isRunning' = TRUE
    /\ cyc' = [cyc EXCEPT ![calls + 1] = NoLocals("feeds")]
    /\ UNCHANGED <<engine, newsItems, marketData, eventCards, insights, gen, calc, conn, route, batch, stores>>

\* the end of the try block and the finally block: isRunning = false
Finish(i, locals) ==
    /\ isRunning' = FALSE
    /\ cyc' = [cyc EXCEPT ![i] = NoLocals("done")]

\* step 5 onwards: alert detection when there are new items, else the end
ToAlerts(i, locals) ==
    IF Len(locals.newItems) > 0
    THEN /\ cyc' = [cyc EXCEPT ![i] = [locals EXCEPT !.pc = "alerts", !.todo = <<>>,
                                                     !.args = <<>>]]
         /\ UNCHANGED isRunning
    ELSE Finish(i, locals)

\* step 4 onwards, with market and cards the values of marketData and eventCards
\* after step 3
ToInsight(i, locals, market, cards) ==
    IF ~market.isNull /\ Len(cards) > 0
    THEN /\ cyc' = [cyc EXCEPT ![i] = [locals EXCEPT !.pc = "insight", !.todo = <<>>,
                                          !.args = Take(cards, INSIGHT_CARDS)]]
         /\ UNCHANGED isRunning
    ELSE ToAlerts(i, locals)

\* fetchAllFeeds has resolved: steps 1 (deduplicate, store) up to the await of step 2
FeedsFetched(i) ==
    /\ cyc[i].pc = "feeds"
    /\ \E s \in 1..Len(FeedScenarios) :
          LET freshNews == FeedTable[s][clock]
              newItems  == Dedup(freshNews, newsItems)
          IN  /\ newsItems' = Retain(newItems, newsItems)
              /\ cyc' = [cyc EXCEPT ![i] = [@ EXCEPT !.pc = "markets", !.newItems = newItems]]
    /\ UNCHANGED <<engine, marketData, eventCards, insights, isRunning, clock, calls, gen, calc, conn, route, batch, stores>>

\* fetchAllMarkets has resolved: step 2, then step 3 up to the first await of
\* generateEventCard (or on to step 4 when there is no new item)
MarketsFetched(i) ==
    /\ cyc[i].pc = "markets"
    /\ \E m \in 1..Len(MarketSnapshots(clock)) : marketData' = MarketSnapshots(clock)[m]
    /\ IF Len(cyc[i].newItems) > 0
       THEN /\ cyc' = [cyc EXCEPT ![i] = [@ EXCEPT !.pc = "cards",
                          !.todo = CategoriesOf(Take(cyc[i].newItems, CARD_WINDOW))]]
            /\ UNCHANGED isRunning
       ELSE ToInsight(i, cyc[i], marketData', eventCards)
    /\ UNCHANGED <<engine, newsItems, eventCards, insights, clock, calls, gen, calc, conn, route, batch, stores>>

\* generateEventCard has settled for the first category still to do: the card is
\* stored (or the rejection logged), then the next category, or the cap and step 4
CardGenerated(i) ==
    /\ cyc[i].pc = "cards"
    /\ \E r \in ReplyChoices(WorkerCardReplies) :
          LET category == Head(cyc[i].todo)
              items    == GroupOf(Take(cyc[i].newItems, CARD_WINDOW), category)
              outcome  == generateEventCard(engine, items, WorkerCardReplies[r], clock)
              card     == Put(Put(outcome.value, "id",
                                  [kind |-> "event", at |-> clock, category |-> category]),
                              "category", category)
              unshifted == IF outcome.status = "resolved" THEN <<card>> \o eventCards
                           ELSE eventCards
              rest     == Tail(cyc[i].todo)
          IN  IF rest # <<>>
              THEN /\ eventCards' = unshifted
                   /\ cyc' = [cyc EXCEPT ![i].todo = rest]
                   /\ UNCHANGED isRunning
              ELSE /\ eventCards' = Take(unshifted, CARD_RETENTION)
                   /\ ToInsight(i, cyc[i], marketData, Take(unshifted, CARD_RETENTION))
    /\ UNCHANGED <<engine, newsItems, marketData, insights, clock, calls, gen, calc, conn, route, batch, stores>>

\* generateInsight has settled: the insight is stored and capped, then step 5
InsightGenerated(i) ==
    /\ cyc[i].pc = "insight"
    /\ \E r \in ReplyChoices(WorkerInsightReplies) :
          LET outcome == generateInsight(engine, marketData, cyc[i].args,
                                         WorkerInsightReplies[r], clock)
              insight == Put(outcome.value, "id", [kind |-> "insight", at |-> clock])
          IN  insights' = IF outcome.status = "resolved"
                          THEN Take(<<insight>> \o insights, INSIGHT_RETENTION)
                          ELSE insights
    /\ ToAlerts(i, cyc[i])
    /\ UNCHANGED <<engine, newsItems, marketData, eventCards, clock, calls, gen, calc, conn, route, batch, stores>>

\* detectAlerts has settled: the alerts are only logged; the cycle ends
AlertsChecked(i) ==
    /\ cyc[i].pc = "alerts"
    /\ \E r \in ReplyChoices(WorkerAlertReplies) :
          detectAlerts(engine, Take(cyc[i].newItems, 10), WorkerAlertReplies[r]).status
              \in {"resolved", "rejected"}
    /\ Finish(i, cyc[i])
    /\ UNCHANGED <<engine, newsItems, marketData, eventCards, insights, clock, calls, gen, calc, conn, route, batch, stores>>

\* the finally block left out: the flag stays set after the catch
CycleAborts_NoFinally(i) ==
    /\ i \in Active
    /\ cyc' = [cyc EXCEPT ![i] = NoLocals("aborted")]
    /\ UNCHANGED <<engine, newsItems, marketData, eventCards, insights, isRunning, clock, calls,
                   gen, calc, conn, route, batch, stores>>

\* an unexpected error reaches the catch of the cycle: the call awaited in step 1 or
\* 2 rejects, or a statement outside the inner try blocks (or the handler of one)
\* throws. The error is logged and not rethrown, and the finally block runs; what the
\* cycle has assigned so far stays assigned.
CycleAborts(i) ==
    /\ i \in Active
    /\ isRunning' = FALSE
    /\ cyc' = [cyc EXCEPT ![i] = NoLocals("aborted")]
    /\ UNCHANGED <<engine, newsItems, marketData, eventCards, insights, clock, calls,
                   gen, calc, conn, route, batch, stores>>

\* no generation call in progress
NoReply == [kind |-> "none"]

NoGen == [pc |-> "idle", kind |-> "none", newsItems |-> <<>>, marketData |-> NoMarketData,
          eventCards |-> <<>>, reply |-> NoReply, outcome |-> Rejected("none")]

\* no function applied
NoCalc == [fn |-> "none", applied |-> FALSE, base |-> 0, sources |-> <<>>,
           publishedAt |-> 0, fetchedAt |-> 0, now |-> 0, out |-> 0,
           score |-> [num |-> 0, den |-> 1]]

\* no function of a connector applied
NoConn == [fn |-> "none", prices |-> <<>>, markets |-> EmptyObj, outcomes |-> <<>>,
           text |-> <<>>, now |-> 0, out |-> 0]

\* most requests of the markets route in flight at once
MaxReaders == 2

\* a request slot of the markets route with no request in it
NoRequest == [pc |-> "idle", path |-> "none", now |-> 0, symbol |-> "none",
              data |-> NoMarketData]

\* no response sent yet
NoResponse == [path |-> "none", status |-> 0, cached |-> FALSE, snapshotTime |-> 0,
               stamp |-> 0, at |-> 0]

\* Date.now() when the server starts, in ms (any positive time)
StartTime == 30 * 1000

\* let marketCache = null; let cacheTimestamp = null (null and 0 are both falsy)
NoRoute == [marketCache |-> NoMarketData, cacheTimestamp |-> 0, time |-> StartTime,
            reqs |-> [r \in 1..MaxReaders |-> NoRequest], last |-> NoResponse]

\* no call of fetchAllFeeds or fetchAllMarkets being followed
NoBatch == [fn |-> "none", pc |-> "idle", outcomes |-> <<>>, time |-> 0, start |-> 0,
            inflight |-> {}, settled |-> EmptyObj, acc |-> <<>>, out |-> 0]

\* let newsItems = []; let eventCards = []; let insightsStore = []
NoStores == [newsItems |-> <<>>, eventCards |-> <<>>, insightsStore |-> <<>>, requests |-> 0]

\* the configurations of the worker's engine: without and with OPENAI_API_KEY
WorkerEngines == <<NewEngine(FALSE, ""), NewEngine(TRUE, "")>>

Init ==
    /\ engine \in {WorkerEngines[k] : k \in 1..Len(WorkerEngines)}
    /\ newsItems = <<>>
    /\ marketData = NoMarketData
    /\ eventCards = <<>>
    /\ insights = <<>>
    /\ isRunning = FALSE
    /\ clock = 0
    /\ calls = 0
    /\ cyc = [i \in 1..MaxCalls |-> NoLocals("unused")]
    /\ gen = NoGen
    /\ calc = NoCalc
    /\ conn = NoConn
    /\ route = NoRoute
    /\ batch = NoBatch
    /\ stores = NoStores

Next ==
    \/ CallSkipped
    \/ CallStarts
    \/ \E i \in 1..MaxCalls : FeedsFetched(i)
    \/ \E i \in 1..MaxCalls : MarketsFetched(i)
    \/ \E i \in 1..MaxCalls : CardGenerated(i)
    \/ \E i \in 1..MaxCalls : InsightGenerated(i)
    \/ \E i \in 1..MaxCalls : AlertsChecked(i)

Spec == Init /\ [][Next]_vars

\* the scheduling the code guarantees: a feed fetch and a quote fetch settle (both
\* carry a 10 s timeout), and a backend step completes when no backend is configured
\* (callLLM returns null at once); the request to the backend carries no timeout
LiveSpec ==
    /\ Spec
    /\ WF_vars(\E i \in 1..MaxCalls : FeedsFetched(i))
    /\ WF_vars(\E i \in 1..MaxCalls : MarketsFetched(i))
    /\ WF_vars(~engine.openai /\ \E i \in 1..MaxCalls : CardGenerated(i))
    /\ WF_vars(~engine.openai /\ \E i \in 1..MaxCalls : InsightGenerated(i))
    /\ WF_vars(~engine.openai /\ \E i \in 1..MaxCalls : AlertsChecked(i))

\* the worker when unexpected errors can occur in a cycle (the engine without a
\* backend, which is the configuration without OPENAI_API_KEY)
FaultInit == Init /\ ~engine.openai

FaultNext ==
    \/ Next
    \/ \E i \in 1..MaxCalls : CycleAborts(i)

FaultSpec == FaultInit /\ [][FaultNext]_vars

(***************************************************************************)
(* Claims about the ingestion cycle.                                       *)
(***************************************************************************)
\* C1: at most one ingestion cycle is in progress at any time, and a call of
\* runIngestionCycle made while a cycle is running returns at once: it changes none
\* of newsItems, marketData, eventCards, insights, leaves the running cycle alone,
\* and is never run later
C1_SingleCycleSkipIsNoOp ==
    /\ [](Cardinality(Active) <= 1 /\ (isRunning <=> Active # {}))
    /\ [][/\ (calls' = calls + 1 /\ isRunning) =>
                /\ UNCHANGED <<newsItems, marketData, eventCards, insights, isRunning>>
                /\ cyc'[calls'].pc = "skipped"
                /\ \A i \in 1..calls : cyc'[i] = cyc[i]
          /\ \A i \in 1..MaxCalls : cyc[i].pc = "skipped" => cyc'[i].pc = "skipped"]_vars

\* a call was skipped while a cycle that has already stored news is running
C1_Witness ==
    \E i \in 1..MaxCalls : cyc[i].pc = "skipped" /\ Active # {} /\ Len(newsItems) > 0

\* C2: every ingestion cycle that starts eventually finishes
C2_CycleFinishes == isRunning ~> ~isRunning

\* C3: the held news store never contains two items with the same fingerprint
C3_NoDuplicateFingerprints ==
    Cardinality({newsItems[j].contentHash : j \in 1..Len(newsItems)}) = Len(newsItems)

\* the step of call i that stores the fetched news
StoresNews(i) == cyc[i].pc = "feeds" /\ cyc'[i].pc = "markets"

\* C4: the held news store has at most 500 items; the store changes only when a cycle
\* stores its new items, and then it holds the first k new items followed by the
\* first n previously held ones, in order; something is dropped only at the cap, and
\* a new item is dropped only when no previously held item survives
C4_CapDropsOldestHeld ==
    /\ [](Len(newsItems) <= NEWS_RETENTION)
    /\ [][/\ newsItems' # newsItems => \E i \in 1..MaxCalls : StoresNews(i)
          /\ \A i \in 1..MaxCalls : StoresNews(i) =>
                LET new == cyc'[i].newItems
                    k   == Min(Len(new), Len(newsItems'))
                    n   == Len(newsItems') - k
                IN  /\ n <= Len(newsItems)
                    /\ SubSeq(newsItems', 1, k) = SubSeq(new, 1, k)
                    /\ SubSeq(newsItems', k + 1, k + n) = SubSeq(newsItems, 1, n)
                    /\ (k < Len(new) \/ n < Len(newsItems)) => Len(newsItems') = NEWS_RETENTION
                    /\ k < Len(new) => n = 0]_vars

\* the store is at the cap and holds items of the running cycle and older ones
C4_Witness ==
    /\ Len(newsItems) = NEWS_RETENTION
    /\ \E i \in 1..MaxCalls :
          /\ cyc[i].pc = "markets"
          /\ Len(cyc[i].newItems) > 0
          /\ Len(cyc[i].newItems) < NEWS_RETENTION
          /\ newsItems[Len(cyc[i].newItems) + 1].contentHash
                \notin {cyc[i].newItems[j].contentHash : j \in 1..Len(cyc[i].newItems)}

\* the calls whose cycle has ended, by completing or by an error caught at its boundary
Ended == {i \in 1..MaxCalls : cyc[i].pc \in {"done", "aborted"}}

WindowCategories(newItems) ==
    {Take(newItems, CARD_WINDOW)[k].category : k \in 1..Min(CARD_WINDOW, Len(newItems))}

\* C25: a cycle with new items generates exactly one event card per category found
\* among its 20 newest new items, each card tagged with its category and put in
\* front of the cards held; a cycle without new items generates none; and cards are
\* added by no other step
C25_OneCardPerCategory ==
    [][/\ \A i \in 1..MaxCalls :
             /\ (cyc[i].pc = "markets" /\ cyc'[i].pc = "cards") =>
                   /\ Len(cyc'[i].todo) = Cardinality(WindowCategories(cyc[i].newItems))
                   /\ {cyc'[i].todo[k] : k \in 1..Len(cyc'[i].todo)}
                         = WindowCategories(cyc[i].newItems)
             /\ (cyc[i].pc = "markets" /\ cyc[i].newItems = <<>>) => cyc'[i].pc # "cards"
             /\ (cyc[i].pc = "cards" /\ cyc'[i] # cyc[i]) =>
                   /\ cyc[i].todo # <<>>
                   /\ eventCards'[1].category = Head(cyc[i].todo)
                   /\ Tail(eventCards') = Take(eventCards, Len(eventCards') - 1)
                   /\ Len(eventCards') = Min(Len(eventCards) + 1, CARD_RETENTION)
                   /\ IF Len(cyc[i].todo) > 1
                      THEN cyc'[i].pc = "cards" /\ cyc'[i].todo = Tail(cyc[i].todo)
                      ELSE cyc'[i].pc # "cards"
       /\ eventCards' # eventCards =>
             \E i \in 1..MaxCalls : cyc[i].pc = "cards" /\ cyc'[i] # cyc[i]]_vars

\* a cycle whose new items have a category only beyond the 20 newest has generated
\* its one card
C25_Witness ==
    \E i \in 1..MaxCalls :
        /\ cyc[i].pc \in {"insight", "alerts"}
        /\ Len(cyc[i].newItems) > CARD_WINDOW
        /\ \E k \in 1..Len(cyc[i].newItems) :
               cyc[i].newItems[k].category \notin WindowCategories(cyc[i].newItems)
        /\ Len(eventCards) = 1

\* call i runs the second cycle: call 1 ran the first one to its end, and the calls
\* between them were skipped
SecondCycle(i) ==
    /\ i > 1
    /\ cyc[1].pc = "done"
    /\ \A j \in 2..(i - 1) : cyc[j].pc = "skipped"

\* the news store is the one the first cycle leaves when its fetch answers with
\* scenario s
FirstCycleFetched(s) == newsItems = Retain(Dedup(FeedTable[s][1], <<>>), <<>>)

\* call i stores what a fetch answering with scenario s yields
FetchesScenario(i, s) ==
    /\ StoresNews(i)
    /\ cyc'[i].newItems = Dedup(FeedTable[s][clock], newsItems)
    /\ newsItems' = Retain(cyc'[i].newItems, newsItems)

\* C28: when the second of two consecutive cycles fetches the same set of items as
\* the first, it finds no new item and leaves the news store as it was, whatever the
\* size of the set; and a cycle without new items leaves the event cards as they were
C28_IdempotentOnUnchangedFeeds ==
    [][\A i \in 1..MaxCalls :
          /\ \A s \in 1..Len(FeedScenarios) :
                (SecondCycle(i) /\ FirstCycleFetched(s) /\ FetchesScenario(i, s)) =>
                    (cyc'[i].newItems = <<>> /\ newsItems' = newsItems)
          /\ (i \in Active /\ cyc[i].newItems = <<>>) => eventCards' = eventCards]_vars

\* the cycle of call i is aborted by this step
Aborts(i) == i \in Active /\ cyc'[i].pc = "aborted"

\* the entries of a buffer made since call i began (the clock counts the calls, so an
\* entry of an earlier cycle is stamped before i)
MadeSince(buffer, i) == {k \in 1..Len(buffer) : buffer[k].id.at >= i}

\* C30: a cycle aborted by an unexpected error leaves newsItems, eventCards and
\* insights as they were when it started: none of the items it found new is held
\* afterwards (so each is new again for the next cycle), and no card or insight of
\* the aborted cycle is held
C30_AbortLeavesStateUnchanged ==
    [][\A i \in 1..MaxCalls :
          Aborts(i) =>
             /\ \A k \in 1..Len(cyc[i].newItems) :
                   cyc[i].newItems[k].contentHash
                       \notin {newsItems'[j].contentHash : j \in 1..Len(newsItems')}
             /\ MadeSince(eventCards', i) = {}
             /\ MadeSince(insights', i) = {}]_vars

(***************************************************************************)
(* The engine called on its own (as the routes call it): generateEventCard *)
(* and generateInsight as BUILD_PROMPT, CALL_BACKEND, result.              *)
(***************************************************************************)
\* number of generation calls
MaxRequests == 2

\* the engine's configurations: no API key; a key with the default model; a key with
\* OPENAI_MODEL naming another model of the backend
EngineConfigs == <<NewEngine(FALSE, ""), NewEngine(TRUE, ""), NewEngine(TRUE, "gpt-4o")>>

\* the answers of the backend: failures, text that is not JSON, JSON that is not an
\* object, objects with all, some or none of the fields asked for, and an object that
\* brings its own _meta
EngineReplies ==
    << Throws,
       NoChoices,
       Completion(NotJson),
       Completion(JsonNull),
       Completion(JsonObject(EmptyObj)),
       Completion(JsonObject(FullCardObj)),
       Completion(JsonObject(FullInsightObj)),
       Completion(JsonObject([title |-> <<70, 101, 100>>, confidence |-> 55])),
       Completion(JsonObject(Put(FullCardObj, "_meta", [model |-> "mock"]))),
       Completion(JsonObject(Put(FullInsightObj, "_meta", [model |-> "mock"]))) >>

\* the lists of news items given to generateEventCard: the prefixes (the empty one
\* included) of a fetch of four items
EngineItemLists ==
    LET all == FeedTable[2][1]
    IN  Seq1([n \in 1..(Len(all) + 1) |-> Take(all, n - 1)])

\* the snapshots given to generateInsight: none, and fetched ones
EngineMarkets(now) ==
    <<NoMarketData>> \o MarketSnapshots(now) \o
    << [isNull |-> FALSE, timestamp |-> now,
        markets |-> [s \in {"SPY", "VIX"} |->
                       IF s = "SPY" THEN Quote("SPY", 49000, 50009)
                       ELSE Quote("VIX", 3120, 2498)]] >>

\* the lists of event cards given to generateInsight
EngineCardLists ==
    << <<>>,
       <<generateMockEventCard(<<SampleItem>>, 0)>>,
       <<generateMockEventCard(<<SampleItem>>, 0), FullCardObj>> >>

\* a caller calls generateEventCard(newsItems): the prompt is built, callLLM awaited
CallGenerateEventCard ==
    /\ gen.pc = "idle"
    /\ clock < MaxRequests
    /\ clock' = clock + 1
    /\ \E n \in 1..Len(EngineItemLists) :
          gen' = [NoGen EXCEPT !.pc = "called", !.kind = "card",
                               !.newsItems = EngineItemLists[n]]
    /\ UNCHANGED <<engine, newsItems, marketData, eventCards, insights, isRunning, calls,
                   cyc, calc, conn, route, batch, stores>>

\* a caller calls generateInsight(marketData, eventCards)
CallGenerateInsight ==
    /\ gen.pc = "idle"
    /\ clock < MaxRequests
    /\ clock' = clock + 1
    /\ \E m \in 1..Len(EngineMarkets(clock)), c \in 1..Len(EngineCardLists) :
          gen' = [NoGen EXCEPT !.pc = "called", !.kind = "insight",
                               !.marketData = EngineMarkets(clock)[m],
                               !.eventCards = EngineCardLists[c]]
    /\ UNCHANGED <<engine, newsItems, marketData, eventCards, insights, isRunning, calls,
                   cyc, calc, conn, route, batch, stores>>

\* callLLM has settled and the call resolves or rejects
GenerationSettles ==
    /\ gen.pc = "called"
    /\ \E r \in (IF engine.openai THEN 1..Len(EngineReplies) ELSE {1}) :
          LET reply == IF engine.openai THEN EngineReplies[r] ELSE NoReply
          IN  gen' = [gen EXCEPT
                  !.pc = "settled",
                  !.reply = reply,
                  !.outcome = IF gen.kind = "card"
                              THEN generateEventCard(engine, gen.newsItems, reply, clock)
                              ELSE generateInsight(engine, gen.marketData, gen.eventCards,
                                                   reply, clock)]
    /\ UNCHANGED <<engine, newsItems, marketData, eventCards, insights, isRunning, clock,
                   calls, cyc, calc, conn, route, batch, stores>>

\* the caller has taken the result
GenerationReturns ==
    /\ gen.pc = "settled"
    /\ gen' = NoGen
    /\ UNCHANGED <<engine, newsItems, marketData, eventCards, insights, isRunning, clock,
                   calls, cyc, calc, conn, route, batch, stores>>

EngineInit ==
    /\ engine \in {EngineConfigs[k] : k \in 1..Len(EngineConfigs)}
    /\ newsItems = <<>>
    /\ marketData = NoMarketData
    /\ eventCards = <<>>
    /\ insights = <<>>
    /\ isRunning = FALSE
    /\ clock = 0
    /\ calls = 0
    /\ cyc = [i \in 1..MaxCalls |-> NoLocals("unused")]
    /\ gen = NoGen
    /\ calc = NoCalc
    /\ conn = NoConn
    /\ route = NoRoute
    /\ batch = NoBatch
    /\ stores = NoStores

EngineNext ==
    \/ CallGenerateEventCard
    \/ CallGenerateInsight
    \/ GenerationSettles
    \/ GenerationReturns

EngineSpec == EngineInit /\ [][EngineNext]_vars

\* the call has resolved with an artifact
Settled == gen.pc = "settled"

Returned == Settled /\ gen.outcome.status = "resolved"

\* the artifact was built from an answer of the backend (callLLM returned a result)
Generative == engine.openai /\ gen.reply.kind = "completion" /\ gen.reply.text.json

\* the schema of the kind of artifact asked for
SchemaOf(kind) == IF kind = "card" THEN EventCardSchema ELSE InsightSchema

(***************************************************************************)
(* Claims about generateEventCard and generateInsight.                     *)
(***************************************************************************)
\* C5: generateInsight and generateEventCard never reject, whatever the inputs and
\* whatever the backend does
C5_NeverRejects == Settled => gen.outcome.status = "resolved"

\* C6: every returned Insight and EventCard carries _meta with the producing model
\* (the engine's model id, or the fallback marker), the prompt-template version and
\* the generation timestamp
C6_Provenance ==
    Returned =>
        /\ "_meta" \in DOMAIN gen.outcome.value
        /\ {"model", "promptVersion", "generatedAt"} \subseteq DOMAIN gen.outcome.value._meta
        /\ gen.outcome.value._meta.model = (IF Generative THEN engine.model ELSE "mock")
        /\ gen.outcome.value._meta.promptVersion = PROMPT_VERSION
        /\ gen.outcome.value._meta.generatedAt = clock

\* an event card built from an answer of the backend that carried a _meta of its own
C6_Witness ==
    /\ Returned /\ Generative /\ gen.kind = "card"
    /\ "_meta" \in DOMAIN Spread(gen.reply.text.value)

\* C7: every returned artifact, fallback or generative, has all the fields the
\* prompt template's structure for its kind requires
C7_SchemaBothPaths == Returned => SchemaOf(gen.kind) \subseteq DOMAIN gen.outcome.value

\* C8: without a backend configured the artifact has the fixed low fallback
\* confidence (20 for an insight, 30 for an event card, both within 20..30) and the
\* marker 'mock' as _meta.model; an artifact built from an answer of the backend
\* never carries the marker
C8_FallbackMarked ==
    Returned =>
        /\ ~engine.openai =>
              /\ gen.outcome.value._meta.model = "mock"
              /\ gen.outcome.value.confidence = (IF gen.kind = "insight" THEN 20 ELSE 30)
              /\ gen.outcome.value.confidence \in 20..30
        /\ Generative => gen.outcome.value._meta.model # "mock"

\* generateInsight(marketData, []) has returned without a backend configured
C8_Witness ==
    /\ Returned /\ ~engine.openai /\ gen.kind = "insight"
    /\ ~gen.marketData.isNull /\ gen.eventCards = <<>>

(***************************************************************************)
(* InsightEngine.calculateFreshnessScore and InsightEngine.adjustConfidence*)
(* Times are milliseconds; a score is the exact fraction num / den.        *)
(***************************************************************************)
\* longest source list given to adjustConfidence
MaxSources == 3

HOUR == 60 * 60 * 1000

PUBLISHED_DECAY == 24 * 60 * 60 * 1000

FETCHED_DECAY == 6 * 60 * 60 * 1000

\* Math.max(0, 1 - age / decay) as the numerator over decay
Freshness(age, decay) == Max(0, decay - age)

\* the two ages taken with the wrong sign (timestamp minus now)
calculateFreshnessScore_AgeReversed(publishedAt, fetchedAt, now) ==
    [num |-> 7 * Freshness(publishedAt - now, PUBLISHED_DECAY)
               + 3 * (PUBLISHED_DECAY \div FETCHED_DECAY)
                   * Freshness(fetchedAt - now, FETCHED_DECAY),
     den |-> 10 * PUBLISHED_DECAY]

\* publishedFreshness * 0.7 + fetchedFreshness * 0.3, over the common denominator
\* 10 * PUBLISHED_DECAY (PUBLISHED_DECAY is 4 * FETCHED_DECAY)
calculateFreshnessScore(publishedAt, fetchedAt, now) ==
    LET publishedAge       == now - publishedAt
        fetchedAge         == now - fetchedAt
        publishedFreshness == Freshness(publishedAge, PUBLISHED_DECAY)
        fetchedFreshness   == Freshness(fetchedAge, FETCHED_DECAY)
    IN  [num |-> 7 * publishedFreshness
                   + 3 * (PUBLISHED_DECAY \div FETCHED_DECAY) * fetchedFreshness,
         den |-> 10 * PUBLISHED_DECAY]

\* s.credibility || 50: an absent credibility and the credibility 0 both count as 50
CredibilityOr50(s) ==
    IF "credibility" \in DOMAIN s /\ s.credibility # 0 THEN s.credibility ELSE 50

RECURSIVE SumCredibility(_)
SumCredibility(sources) ==
    IF sources = <<>> THEN 0
    ELSE CredibilityOr50(Head(sources)) + SumCredibility(Tail(sources))

\* the comparisons of avgCredibility (sum / length) are made on the sum
adjustConfidence(baseConfidence, sources) ==
    LET n       == Len(sources)
        bySize  == IF n >= 3 THEN 10 ELSE IF n = 1 THEN 0 - 15 ELSE 0
        sum     == SumCredibility(sources)
        byCred  == IF sum >= 80 * n THEN 10 ELSE IF sum < 50 * n THEN 0 - 20 ELSE 0
    IN  Max(10, Min(90, baseConfidence + bySize + byCred))

\* base confidences: below, on and above the limits of the clamp
BaseConfidences == {0, 10, 30, 50, 75, 90, 100}

\* credibilities of sources, DEFAULT_FEEDS' among them
Credibilities == {0, 40, 49, 50, 79, 80, 100}

RECURSIVE SourceLists(_)
SourceLists(n) ==
    IF n = 0 THEN {<<>>}
    ELSE {Append(l, [credibility |-> c]) : l \in SourceLists(n - 1), c \in Credibilities}

\* the time of the call
CalcNow == 36 * HOUR

\* offsets of publishedAt and fetchedAt from the time of the call, in hours: in the
\* past beyond the decay, at the decay, inside it, now, and in the future
PublishedOffsets == {0 - 30, 0 - 24, 0 - 12, 0 - 1, 0, 1, 12}

FetchedOffsets == {0 - 7, 0 - 6, 0 - 3, 0, 1, 12}

\* a caller applies adjustConfidence to a base and a non-empty list of sources
ApplyAdjustConfidence ==
    /\ ~calc.applied
    /\ \E base \in BaseConfidences, n \in 1..MaxSources :
          \E sources \in SourceLists(n) :
             calc' = [NoCalc EXCEPT !.fn = "adjustConfidence", !.applied = TRUE,
                                    !.base = base, !.sources = sources,
                                    !.out = adjustConfidence(base, sources)]
    /\ UNCHANGED <<workerVars, gen, conn, route, batch, stores>>

\* a caller applies calculateFreshnessScore to the timestamps of a news item
ApplyFreshnessScore ==
    /\ ~calc.applied
    /\ \E p \in PublishedOffsets, f \in FetchedOffsets :
          calc' = [NoCalc EXCEPT
                      !.fn = "calculateFreshnessScore", !.applied = TRUE,
                      !.publishedAt = CalcNow + p * HOUR,
                      !.fetchedAt = CalcNow + f * HOUR,
                      !.now = CalcNow,
                      !.score = calculateFreshnessScore(CalcNow + p * HOUR,
                                                        CalcNow + f * HOUR, CalcNow)]
    /\ UNCHANGED <<workerVars, gen, conn, route, batch, stores>>

\* the caller has taken the value
CalcReturns ==
    /\ calc.applied
    /\ calc' = NoCalc
    /\ UNCHANGED <<workerVars, gen, conn, route, batch, stores>>

CalcNext ==
    \/ ApplyAdjustConfidence
    \/ ApplyFreshnessScore
    \/ CalcReturns

CalcSpec == EngineInit /\ [][CalcNext]_vars

(***************************************************************************)
(* Claims about adjustConfidence and calculateFreshnessScore.              *)
(***************************************************************************)
RECURSIVE SumOf(_)
SumOf(sources) ==
    IF sources = <<>> THEN 0 ELSE Head(sources).credibility + SumOf(Tail(sources))

\* C9: adjustConfidence(base, sources) is base + a + b clamped to [10,90], a = +10 for
\* at least 3 sources, -15 for exactly 1, else 0; b = +10 for a mean credibility
\* >= 80, -20 for a mean credibility < 50, else 0; and the output is in [10,90]
C9_AdjustConfidenceFormula ==
    calc.fn = "adjustConfidence" =>
        LET n == Len(calc.sources)
            a == IF n >= 3 THEN 10 ELSE IF n = 1 THEN 0 - 15 ELSE 0
            b == IF SumOf(calc.sources) >= 80 * n THEN 10
                 ELSE IF SumOf(calc.sources) < 50 * n THEN 0 - 20 ELSE 0
        IN  /\ calc.out = Max(10, Min(90, calc.base + a + b))
            /\ calc.out \in 10..90

\* C10: calculateFreshnessScore is in [0,1] for all publish and fetch timestamps,
\* those later than the current time included
C10_FreshnessInUnitInterval ==
    calc.fn = "calculateFreshnessScore" =>
        /\ 0 <= calc.score.num
        /\ calc.score.num <= calc.score.den

\* the ages of the timestamps of the application in calc
PublishAge == calc.now - calc.publishedAt

FetchAge == calc.now - calc.fetchedAt

\* C11: the freshness score is exactly 0.0 once the publish age is >= 24 hours, even
\* if the fetch age is 0
C11_ZeroOncePublishedADayAgo ==
    (calc.fn = "calculateFreshnessScore" /\ PublishAge >= 24 * HOUR) => calc.score.num = 0

\* C12: for non-negative ages the freshness score never increases when the publish
\* age grows with the fetch age fixed, or the fetch age grows with the publish age
\* fixed; and it is exactly 1.0 when both ages are 0
C12_FreshnessMonotone ==
    (calc.fn = "calculateFreshnessScore" /\ PublishAge >= 0 /\ FetchAge >= 0) =>
        /\ \A p \in PublishedOffsets :
              (0 - p) * HOUR >= PublishAge =>
                 calculateFreshnessScore(calc.now + p * HOUR, calc.fetchedAt, calc.now).num
                    <= calc.score.num
        /\ \A f \in FetchedOffsets :
              (0 - f) * HOUR >= FetchAge =>
                 calculateFreshnessScore(calc.publishedAt, calc.now + f * HOUR, calc.now).num
                    <= calc.score.num
        /\ (PublishAge = 0 /\ FetchAge = 0) => calc.score.num = calc.score.den

\* a score strictly between 0 and 1, of an item published and fetched in the past
C12_Witness ==
    /\ calc.fn = "calculateFreshnessScore"
    /\ PublishAge > 0 /\ FetchAge > 0
    /\ 0 < calc.score.num /\ calc.score.num < calc.score.den

\* the confidence the producing path arrived at: the fallback's fixed value, or the
\* one in the backend's answer
BaseConfidence == IF Generative THEN Spread(gen.reply.text.value).confidence
                  ELSE IF gen.kind = "card" THEN 30 ELSE 20

\* C23: the confidence of every produced EventCard and Insight, generative or
\* fallback, is the adjusted value: it lies in [10,90], and for an event card it is
\* adjustConfidence of the path's confidence and the card's news items
C23_ConfidenceAdjusted ==
    (Returned /\ "confidence" \in DOMAIN gen.outcome.value) =>
        /\ gen.outcome.value.confidence \in 10..90
        /\ gen.kind = "card" =>
              gen.outcome.value.confidence = adjustConfidence(BaseConfidence, gen.newsItems)

(***************************************************************************)
(* MarketConnector: the technical indicators. Prices are hundredths; an    *)
(* average or an RSI is the exact fraction num / den (den = 0: NaN).       *)
(***************************************************************************)
RECURSIVE SumSeq(_)
SumSeq(s) == IF s = <<>> THEN 0 ELSE Head(s) + SumSeq(Tail(s))

\* prices.slice(-period)
LastN(prices, period) == SubSeq(prices, Len(prices) - period + 1, Len(prices))

\* MarketConnector.calculateSMA: null for fewer than period prices
calculateSMA(prices, period) ==
    IF Len(prices) < period THEN [isNull |-> TRUE, num |-> 0, den |-> 1]
    ELSE [isNull |-> FALSE, num |-> SumSeq(LastN(prices, period)), den |-> period]

RSI_PERIOD == 14

\* the sums of the rises and of the falls over the last period differences
Gains(prices, period) ==
    LET n == Len(prices)
    IN  SumSeq(Seq1([k \in 1..period |->
                  Max(0, prices[n - period + k] - prices[n - period + k - 1])]))

Losses(prices, period) ==
    LET n == Len(prices)
    IN  SumSeq(Seq1([k \in 1..period |->
                  Max(0, prices[n - period + k - 1] - prices[n - period + k])]))

Number(n) == [num |-> n, den |-> 1]

NaN == [num |-> 0, den |-> 0]

\* 100 - 100 / (1 + rs) with rs = (gains / period) / (losses / period), which is
\* 100 * gains / (gains + losses)
RSIValue(gains, losses) == [num |-> 100 * gains, den |-> gains + losses]

\* the test for too few prices off by one: with exactly period prices the loop reads
\* prices[-1], which is undefined
calculateRSI_OffByOne(prices, period) ==
    IF Len(prices) < period THEN Number(50)
    ELSE IF Len(prices) = period THEN NaN
    ELSE IF Losses(prices, period) = 0 THEN Number(100)
    ELSE RSIValue(Gains(prices, period), Losses(prices, period))

\* the test for zero losses left out: a flat window divides 0 by 0
calculateRSI_NoZeroLossTest(prices, period) ==
    IF Len(prices) < period + 1 THEN Number(50)
    ELSE IF Losses(prices, period) = 0 /\ Gains(prices, period) > 0 THEN Number(100)
    ELSE RSIValue(Gains(prices, period), Losses(prices, period))

\* MarketConnector.calculateRSI
calculateRSI(prices, period) ==
    IF Len(prices) < period + 1 THEN Number(50)
    ELSE IF Losses(prices, period) = 0 THEN Number(100)
    ELSE RSIValue(Gains(prices, period), Losses(prices, period))

\* comparisons of fractions with positive denominators
Gt(a, b) == a.num * b.den > b.num * a.den

Ge(a, b) == a.num * b.den >= b.num * a.den

Lt(a, b) == Gt(b, a)

Le(a, b) == Ge(b, a)

\* if (cond) score++ and if (cond) score--
Inc(cond) == IF cond THEN 1 ELSE 0

\* the label of a score
TrendLabel(score) ==
    IF score >= 3 THEN "strong_uptrend"
    ELSE IF score >= 1 THEN "uptrend"
    ELSE IF score >= 0 - 1 THEN "neutral"
    ELSE IF score >= 0 - 3 THEN "downtrend"
    ELSE "strong_downtrend"

\* a point taken off for a price or an average below the average it is compared with
TrendScore_Symmetric(prices) ==
    LET current == Number(prices[Len(prices)])
        sma20   == calculateSMA(prices, 20)
        sma50   == IF Len(prices) >= 50 THEN calculateSMA(prices, 50) ELSE sma20
        rsi     == calculateRSI(prices, RSI_PERIOD)
    IN  Inc(Gt(current, sma20)) + Inc(Gt(current, sma50)) + Inc(Gt(sma20, sma50))
        - Inc(Lt(current, sma20)) - Inc(Lt(current, sma50)) - Inc(Lt(sma20, sma50))
        + Inc(Gt(rsi, Number(50)) /\ Lt(rsi, Number(70)))
        - Inc(Ge(rsi, Number(70))) - Inc(Le(rsi, Number(30)))

\* the score of calculateTrendStrength for at least 20 prices
TrendScore(prices) ==
    LET current == Number(prices[Len(prices)])
        sma20   == calculateSMA(prices, 20)
        sma50   == IF Len(prices) >= 50 THEN calculateSMA(prices, 50) ELSE sma20
        rsi     == calculateRSI(prices, RSI_PERIOD)
    IN  Inc(Gt(current, sma20)) + Inc(Gt(current, sma50)) + Inc(Gt(sma20, sma50))
        + Inc(Gt(rsi, Number(50)) /\ Lt(rsi, Number(70)))
        - Inc(Ge(rsi, Number(70))) - Inc(Le(rsi, Number(30)))

\* MarketConnector.calculateTrendStrength
calculateTrendStrength(prices) ==
    IF Len(prices) < 20 THEN "insufficient_data"
    ELSE TrendLabel(TrendScore(prices))

\* price series: length n, level 100.00, a slope per day, a zigzag of amplitude amp
\* and a last price moved by bump
Series(n, slope, amp, bump) ==
    Seq1([i \in 1..n |-> 10000 + slope * i + amp * (i % 2) + (IF i = n THEN bump ELSE 0)])

\* lengths around the thresholds 15 (RSI), 20 (SMA20, trend) and 50 (SMA50)
SeriesLengths == {0, 1, 14, 15, 16, 19, 20, 21, 49, 50, 51}

SeriesSlopes == {0 - 3, 0 - 1, 0, 1, 3}

SeriesAmps == {0, 5}

SeriesBumps == {0 - 30, 0, 30}

\* a caller applies calculateRSI(prices, 14)
ApplyCalculateRSI ==
    /\ conn.fn = "none"
    /\ \E n \in SeriesLengths, s \in SeriesSlopes, a \in SeriesAmps, b \in SeriesBumps :
          conn' = [NoConn EXCEPT !.fn = "calculateRSI", !.prices = Series(n, s, a, b),
                                 !.out = calculateRSI(Series(n, s, a, b), RSI_PERIOD)]
    /\ UNCHANGED <<workerVars, gen, calc, route, batch, stores>>

\* a caller applies calculateTrendStrength(prices)
ApplyCalculateTrendStrength ==
    /\ conn.fn = "none"
    /\ \E n \in SeriesLengths, s \in SeriesSlopes, a \in SeriesAmps, b \in SeriesBumps :
          conn' = [NoConn EXCEPT !.fn = "calculateTrendStrength",
                                 !.prices = Series(n, s, a, b),
                                 !.out = calculateTrendStrength(Series(n, s, a, b))]
    /\ UNCHANGED <<workerVars, gen, calc, route, batch, stores>>

\* the caller has taken the value
ConnReturns ==
    /\ conn.fn # "none"
    /\ conn' = NoConn
    /\ UNCHANGED <<workerVars, gen, calc, route, batch, stores>>

(***************************************************************************)
(* MarketConnector: quotes, snapshot and summary.                          *)
(***************************************************************************)
\* MarketConnector.calculateMomentum
calculateMomentum(prices, period) ==
    IF Len(prices) < period THEN Number(0)
    ELSE LET current == prices[Len(prices)]
             past    == prices[Len(prices) - period + 1]
         IN  [num |-> (current - past) * 100, den |-> past]

\* MarketConnector.calculateTechnicals (of calculateVolatility, a square root, only
\* whether it is computed or is its early 0)
calculateTechnicals(data) ==
    IF Len(data.historicalCloses) = 0 THEN [isNull |-> TRUE]
    ELSE LET closes == data.historicalCloses
         IN  [isNull        |-> FALSE,
              sma20         |-> calculateSMA(closes, 20),
              sma50         |-> calculateSMA(closes, 50),
              rsi14         |-> calculateRSI(closes, RSI_PERIOD),
              momentum10    |-> calculateMomentum(closes, 10),
              volatility    |-> [computed |-> Len(closes) >= 20],
              trendStrength |-> calculateTrendStrength(closes)]

\* what the request of fetchYahooQuote can end in: fetch rejects (network error, or
\* the 10 s timeout), a status that is not ok, a body that is not JSON, JSON without
\* chart.result[0], a result without indicators, or a result with meta and closes
FetchRejects == [kind |-> "rejects"]

HttpError == [kind |-> "http_error"]

BodyNotJson == [kind |-> "bad_json"]

NoChartResult == [kind |-> "no_result"]

NoIndicators == [kind |-> "no_indicators"]

\* meta.regularMarketPrice and meta.previousClose (0: absent) and the closes that are
\* not null
ChartResult(regularMarketPrice, previousClose, closes) ==
    [kind |-> "result", regularMarketPrice |-> regularMarketPrice,
     previousClose |-> previousClose, closes |-> closes]

\* a || b on prices: b when a is absent or 0
OrElse(a, b) == IF a # 0 THEN a ELSE b

\* MarketConnector.fetchYahooQuote: null on every failure (the catch included). For
\* the responses considered a price absent from meta is in closes.
fetchYahooQuote(response, now) ==
    IF response.kind # "result" THEN [isNull |-> TRUE]
    ELSE LET closes        == response.closes
             currentPrice  == OrElse(response.regularMarketPrice, closes[Len(closes)])
             previousClose == OrElse(response.previousClose, closes[Len(closes) - 1])
         IN  [isNull           |-> FALSE,
              price            |-> currentPrice,
              previousClose    |-> previousClose,
              change           |-> currentPrice - previousClose,
              changePercent    |-> [num |-> (currentPrice - previousClose) * 100,
                                    den |-> previousClose],
              historicalCloses |-> closes,
              fetchedAt        |-> now]

\* SYMBOLS, in the order of allSymbols
SYMBOLS ==
    << "SPY", "QQQ", "DIA", "IWM", "VIX", "DXY", "EURUSD", "GBPUSD", "USDJPY",
       "BTC", "ETH", "GOLD", "SILVER", "OIL", "TNX", "TYX" >>

SymbolSet == {SYMBOLS[k] : k \in 1..Len(SYMBOLS)}

\* markets.SPY of a map without SPY
Undefined == [isUndefined |-> TRUE]

Member(markets, sym) == IF sym \in DOMAIN markets THEN markets[sym] ELSE Undefined

\* q?.price > x, q?.price < x (x in hundredths) and q?.changePercent > x, < x: false
\* for an undefined q
PriceAbove(q, x) == "price" \in DOMAIN q /\ q.price > x

PriceBelow(q, x) == "price" \in DOMAIN q /\ q.price < x

ChangeAbove(q, x) == "changePercent" \in DOMAIN q /\ Gt(q.changePercent, x)

ChangeBelow(q, x) == "changePercent" \in DOMAIN q /\ Lt(q.changePercent, x)

Half == [num |-> 1, den |-> 2]

Neg(x) == [num |-> 0 - x.num, den |-> x.den]

\* the gold checks with the signs of the other members (gold up counted as risk-on)
assessRiskAppetite_GoldAsRisk(spy, vix, btc, gold) ==
    LET riskScore == Inc(ChangeAbove(spy, Half)) - Inc(ChangeBelow(spy, Neg(Half)))
                     + Inc(PriceBelow(vix, 1800)) - Inc(PriceAbove(vix, 2500))
                     + Inc(ChangeAbove(btc, Number(2))) - Inc(ChangeBelow(btc, Number(0 - 2)))
                     + Inc(ChangeAbove(gold, Number(1))) - Inc(ChangeBelow(gold, Number(0 - 1)))
    IN  IF riskScore >= 2 THEN "risk_on"
        ELSE IF riskScore <= 0 - 2 THEN "risk_off" ELSE "neutral"

\* MarketConnector.assessRiskAppetite
assessRiskAppetite(spy, vix, btc, gold) ==
    LET riskScore == Inc(ChangeAbove(spy, Half)) - Inc(ChangeBelow(spy, Neg(Half)))
                     + Inc(PriceBelow(vix, 1800)) - Inc(PriceAbove(vix, 2500))
                     + Inc(ChangeAbove(btc, Number(2))) - Inc(ChangeBelow(btc, Number(0 - 2)))
                     - Inc(ChangeAbove(gold, Number(1))) + Inc(ChangeBelow(gold, Number(0 - 1)))
    IN  IF riskScore >= 2 THEN "risk_on"
        ELSE IF riskScore <= 0 - 2 THEN "risk_off" ELSE "neutral"

\* spy?.technicals?.trendStrength || 'unknown'
EquityTrend(spy) ==
    IF "technicals" \in DOMAIN spy /\ ~spy.technicals.isNull
    THEN spy.technicals.trendStrength ELSE "unknown"

\* the thresholds tested with >= instead of >
generateSummary_Inclusive(markets) ==
    LET vix == Member(markets, "VIX")
        dxy == Member(markets, "DXY")
        tnx == Member(markets, "TNX")
    IN  [equityTrend      |-> EquityTrend(Member(markets, "SPY")),
         volatilityLevel  |-> IF PriceAbove(vix, 2499) THEN "high"
                              ELSE IF PriceAbove(vix, 1799) THEN "moderate" ELSE "low",
         dollarStrength   |-> IF "changePercent" \in DOMAIN dxy /\ Ge(dxy.changePercent, Half)
                              THEN "strengthening"
                              ELSE IF "changePercent" \in DOMAIN dxy
                                      /\ Le(dxy.changePercent, Neg(Half))
                              THEN "weakening" ELSE "stable",
         riskAppetite     |-> assessRiskAppetite(Member(markets, "SPY"), vix,
                                                 Member(markets, "BTC"),
                                                 Member(markets, "GOLD")),
         yieldEnvironment |-> IF PriceAbove(tnx, 449) THEN "high_yields"
                              ELSE IF PriceAbove(tnx, 349) THEN "normal" ELSE "low_yields"]

\* MarketConnector.generateSummary
generateSummary(markets) ==
    LET vix == Member(markets, "VIX")
        dxy == Member(markets, "DXY")
        tnx == Member(markets, "TNX")
    IN  [equityTrend      |-> EquityTrend(Member(markets, "SPY")),
         volatilityLevel  |-> IF PriceAbove(vix, 2500) THEN "high"
                              ELSE IF PriceAbove(vix, 1800) THEN "moderate" ELSE "low",
         dollarStrength   |-> IF ChangeAbove(dxy, Half) THEN "strengthening"
                              ELSE IF ChangeBelow(dxy, Neg(Half)) THEN "weakening"
                              ELSE "stable",
         riskAppetite     |-> assessRiskAppetite(Member(markets, "SPY"), vix,
                                                 Member(markets, "BTC"),
                                                 Member(markets, "GOLD")),
         yieldEnvironment |-> IF PriceAbove(tnx, 450) THEN "high_yields"
                              ELSE IF PriceAbove(tnx, 350) THEN "normal" ELSE "low_yields"]

\* the entry of a symbol in results: { symbol, name, ...data, technicals }
MarketEntry(sym, data) ==
    [symbol           |-> sym,
     price            |-> data.price,
     previousClose    |-> data.previousClose,
     change           |-> data.change,
     changePercent    |-> data.changePercent,
     historicalCloses |-> data.historicalCloses,
     fetchedAt        |-> data.fetchedAt,
     technicals       |-> calculateTechnicals(data)]

\* a symbol whose fetch failed kept in results with the data of a null quote
fetchAllMarkets_KeepsFailed(responses, now) ==
    LET results == [s \in SymbolSet |->
                      IF fetchYahooQuote(responses[s], now).isNull
                      THEN [symbol |-> s, price |-> 0, previousClose |-> 0, change |-> 0,
                            changePercent |-> Number(0), historicalCloses |-> <<>>,
                            fetchedAt |-> now, technicals |-> [isNull |-> TRUE]]
                      ELSE MarketEntry(s, fetchYahooQuote(responses[s], now))]
    IN  [isNull |-> FALSE, timestamp |-> now, markets |-> results,
         summary |-> generateSummary(results)]

\* MarketConnector.fetchAllMarkets: the batches of 5 fill results one after the other;
\* responses[s] is what the request for symbol s ends in
fetchAllMarkets(responses, now) ==
    LET ok      == {s \in SymbolSet : ~fetchYahooQuote(responses[s], now).isNull}
        results == [s \in ok |-> MarketEntry(s, fetchYahooQuote(responses[s], now))]
    IN  [isNull |-> FALSE, timestamp |-> now, markets |-> results,
         summary |-> generateSummary(results)]

(***************************************************************************)
(* The connectors' functions applied by a caller.                          *)
(***************************************************************************)
\* a quote of a basket member with the given price and previous close
BasketQuote(sym, price, previousClose) ==
    MarketEntry(sym, fetchYahooQuote(ChartResult(price, previousClose, <<>>), 1))

\* the members' quotes, below, on and above the thresholds of their checks, and the
\* member missing (previous close 100.00: a price of 100.50 is a change of 0.5 %)
SpyOptions ==
    << Undefined, BasketQuote("SPY", 9949, 10000), BasketQuote("SPY", 9950, 10000),
       BasketQuote("SPY", 10000, 10000), BasketQuote("SPY", 10050, 10000),
       BasketQuote("SPY", 10051, 10000) >>

VixOptions ==
    << Undefined, BasketQuote("VIX", 1799, 1800), BasketQuote("VIX", 1800, 1800),
       BasketQuote("VIX", 1801, 1800), BasketQuote("VIX", 2500, 1800),
       BasketQuote("VIX", 2501, 1800) >>

BtcOptions ==
    << Undefined, BasketQuote("BTC", 9799, 10000), BasketQuote("BTC", 9800, 10000),
       BasketQuote("BTC", 10200, 10000), BasketQuote("BTC", 10201, 10000) >>

GoldOptions ==
    << Undefined, BasketQuote("GOLD", 9899, 10000), BasketQuote("GOLD", 9900, 10000),
       BasketQuote("GOLD", 10100, 10000), BasketQuote("GOLD", 10101, 10000) >>

DxyOptions ==
    << Undefined, BasketQuote("DXY", 9949, 10000), BasketQuote("DXY", 9950, 10000),
       BasketQuote("DXY", 10000, 10000), BasketQuote("DXY", 10050, 10000),
       BasketQuote("DXY", 10051, 10000) >>

TnxOptions ==
    << Undefined, BasketQuote("TNX", 350, 350), BasketQuote("TNX", 351, 350),
       BasketQuote("TNX", 450, 350), BasketQuote("TNX", 451, 350) >>

\* the map holding the members that are not missing
MarketsOf(members) ==
    [s \in {m.symbol : m \in {x \in members : "symbol" \in DOMAIN x}} |->
        CHOOSE m \in members : "symbol" \in DOMAIN m /\ m.symbol = s]

\* a caller applies assessRiskAppetite to the four members of a map
ApplyAssessRiskAppetite ==
    /\ conn.fn = "none"
    /\ \E a \in 1..Len(SpyOptions), b \in 1..Len(VixOptions),
          c \in 1..Len(BtcOptions), d \in 1..Len(GoldOptions) :
          conn' = [NoConn EXCEPT
                      !.fn = "assessRiskAppetite",
                      !.markets = MarketsOf({SpyOptions[a], VixOptions[b],
                                             BtcOptions[c], GoldOptions[d]}),
                      !.out = assessRiskAppetite(SpyOptions[a], VixOptions[b],
                                                 BtcOptions[c], GoldOptions[d])]
    /\ UNCHANGED <<workerVars, gen, calc, route, batch, stores>>

\* a caller applies generateSummary to a map
ApplyGenerateSummary ==
    /\ conn.fn = "none"
    /\ \E a \in {1, Len(SpyOptions)}, b \in 1..Len(VixOptions),
          c \in 1..Len(DxyOptions), d \in 1..Len(TnxOptions) :
          LET markets == MarketsOf({SpyOptions[a], VixOptions[b],
                                    DxyOptions[c], TnxOptions[d]})
          IN  conn' = [NoConn EXCEPT !.fn = "generateSummary", !.markets = markets,
                                     !.out = generateSummary(markets)]
    /\ UNCHANGED <<workerVars, gen, calc, route, batch, stores>>

\* what the request for one symbol ends in: the five failures; a result with meta
\* and 21 closes; a result whose meta has neither price, with 16 closes; a result
\* with meta and no close that is not null
SymbolResponses ==
    << FetchRejects, HttpError, BodyNotJson, NoChartResult, NoIndicators,
       ChartResult(10230, 10000, Series(21, 1, 5, 30)),
       ChartResult(0, 0, Series(16, 0 - 1, 5, 0)),
       ChartResult(2050, 1990, <<>>) >>

\* a caller calls fetchAllMarkets: the requests for SPY, VIX and TNX end in any of the
\* ways, the one for DXY succeeds and the others are rejected
CallFetchAllMarkets ==
    /\ conn.fn = "none"
    /\ \E a \in 1..Len(SymbolResponses), b \in 1..Len(SymbolResponses),
          c \in 1..Len(SymbolResponses) :
          LET responses == [s \in SymbolSet |->
                              IF s = "SPY" THEN SymbolResponses[a]
                              ELSE IF s = "VIX" THEN SymbolResponses[b]
                              ELSE IF s = "TNX" THEN SymbolResponses[c]
                              ELSE IF s = "DXY" THEN ChartResult(10051, 10000, <<10000>>)
                              ELSE FetchRejects]
          IN  conn' = [NoConn EXCEPT !.fn = "fetchAllMarkets", !.outcomes = responses,
                                     !.now = 1,
                                     !.out = fetchAllMarkets(responses, 1)]
    /\ UNCHANGED <<workerVars, gen, calc, route, batch, stores>>

\* what parser.parseURL does for one of the first three feeds: it throws, or it
\* resolves with no entry, with one entry, or with a dated and an undated entry
FeedOutcomes(k) ==
    << FeedError, FeedOk(<<>>), FeedOk(<<BulkEntry(k)>>),
       FeedOk(<<BulkEntry(10 + k), Entry(<<66, k>>, <<47, k>>, NoDate), BulkEntry(5)>>) >>

\* a caller calls fetchAllFeeds: the first three feeds end in any of the ways and
\* the others throw; or the feeds answer as in one of the worker's scenarios
CallFetchAllFeeds ==
    /\ conn.fn = "none"
    /\ \/ \E a \in 1..Len(FeedOutcomes(1)), b \in 1..Len(FeedOutcomes(2)),
             c \in 1..Len(FeedOutcomes(3)) :
             LET outcomes == [AllFeedsFail EXCEPT ![1] = FeedOutcomes(1)[a],
                                                  ![2] = FeedOutcomes(2)[b],
                                                  ![3] = FeedOutcomes(3)[c]]
             IN  conn' = [NoConn EXCEPT !.fn = "fetchAllFeeds", !.outcomes = outcomes,
                                        !.now = 1, !.out = fetchAllFeeds(outcomes, 1)]
       \/ \E s \in 1..3 :
             conn' = [NoConn EXCEPT !.fn = "fetchAllFeeds", !.outcomes = FeedScenarios[s],
                                    !.now = 1,
                                    !.out = fetchAllFeeds(FeedScenarios[s], 1)]
    /\ UNCHANGED <<workerVars, gen, calc, route, batch, stores>>

\* most pieces a text given to sanitizeText is put together from
MaxFragments == 3

\* pieces of feed text: "[IN", "ST]", "[INST]", "[/inst]", "<|im_end|>", "<b>",
\* "Ignore Previous ", "instructions", "you are", " now", "Fed"
TextFragments ==
    << <<91, 73, 78>>,
       <<83, 84, 93>>,
       <<91, 73, 78, 83, 84, 93>>,
       <<91, 47, 105, 110, 115, 116, 93>>,
       <<60, 124, 105, 109, 95, 101, 110, 100, 124, 62>>,
       <<60, 98, 62>>,
       <<73, 103, 110, 111, 114, 101, 32, 80, 114, 101, 118, 105, 111, 117, 115, 32>>,
       <<105, 110, 115, 116, 114, 117, 99, 116, 105, 111, 110, 115>>,
       <<121, 111, 117, 32, 97, 114, 101>>,
       <<32, 110, 111, 119>>,
       <<70, 101, 100>> >>

\* the texts of n pieces
RECURSIVE TextsOf(_)
TextsOf(n) ==
    IF n = 0 THEN {<<>>}
    ELSE {t \o TextFragments[k] : t \in TextsOf(n - 1), k \in 1..Len(TextFragments)}

\* fetchFeed applies sanitizeText to a title or a content snippet
ApplySanitizeText ==
    /\ conn.fn = "none"
    /\ \E n \in 1..MaxFragments :
          \E text \in TextsOf(n) :
             conn' = [NoConn EXCEPT !.fn = "sanitizeText", !.text = text,
                                    !.out = sanitizeText(text)]
    /\ UNCHANGED <<workerVars, gen, calc, route, batch, stores>>

ConnNext ==
    \/ ApplyCalculateRSI
    \/ ApplyCalculateTrendStrength
    \/ ApplyAssessRiskAppetite
    \/ ApplyGenerateSummary
    \/ CallFetchAllMarkets
    \/ CallFetchAllFeeds
    \/ ApplySanitizeText
    \/ ConnReturns

ConnSpec == Init /\ [][ConnNext]_vars

(***************************************************************************)
(* Claims about the market connector and the RSS connector.                *)
(***************************************************************************)
\* the differences of the trailing window of the series in conn
WindowDiffs ==
    LET n == Len(conn.prices)
    IN  {conn.prices[i] - conn.prices[i - 1] : i \in (n - RSI_PERIOD + 1)..n}

\* C13: for every price series of fewer than 15 prices, the empty one included,
\* calculateRSI with period 14 returns exactly 50
C13_ShortSeriesIsFifty ==
    (conn.fn = "calculateRSI" /\ Len(conn.prices) < 15) =>
        (conn.out.den = 1 /\ conn.out.num = 50)

\* calculateRSI applied to a series of exactly 14 prices that are not all equal
C13_Witness ==
    /\ conn.fn = "calculateRSI" /\ Len(conn.prices) = 14
    /\ conn.prices[14] # conn.prices[13]

\* C14: for a series of at least 15 prices calculateRSI returns exactly 100 when none
\* of the last 14 differences is negative (a flat window included), and the RSI is
\* always in [0,100]
C14_NoLossIsHundred ==
    conn.fn = "calculateRSI" =>
        /\ conn.out.den > 0
        /\ 0 <= conn.out.num /\ conn.out.num <= 100 * conn.out.den
        /\ (Len(conn.prices) >= 15 /\ \A d \in WindowDiffs : d >= 0) =>
              conn.out.num = 100 * conn.out.den

\* calculateRSI applied to a series whose trailing window is completely flat
C14_Witness ==
    /\ conn.fn = "calculateRSI" /\ Len(conn.prices) >= 15
    /\ WindowDiffs = {0}

\* C15: for at least 20 prices the trend label is the label of score = [price >
\* SMA20] + [price > SMA50] + [SMA20 > SMA50] + [RSI in [50,70)] - [RSI >= 70]
\* - [RSI <= 30], SMA50 being SMA20 below 50 prices; an RSI of exactly 50 adds a point
C15_TrendScore ==
    (conn.fn = "calculateTrendStrength" /\ Len(conn.prices) >= 20) =>
        LET prices  == conn.prices
            current == Number(prices[Len(prices)])
            sma20   == calculateSMA(prices, 20)
            sma50   == IF Len(prices) >= 50 THEN calculateSMA(prices, 50) ELSE sma20
            rsi     == calculateRSI(prices, RSI_PERIOD)
            score   == Inc(Gt(current, sma20)) + Inc(Gt(current, sma50))
                       + Inc(Gt(sma20, sma50))
                       + Inc(Ge(rsi, Number(50)) /\ Lt(rsi, Number(70)))
                       - Inc(Ge(rsi, Number(70))) - Inc(Le(rsi, Number(30)))
        IN  conn.out = TrendLabel(score)

\* C27: for every series of at least 20 prices the score of calculateTrendStrength
\* lies in -1..4, so the label is 'neutral', 'uptrend' or 'strong_uptrend' and never
\* 'downtrend' or 'strong_downtrend'
C27_NeverDowntrend ==
    (conn.fn = "calculateTrendStrength" /\ Len(conn.prices) >= 20) =>
        /\ TrendScore(conn.prices) \in (0 - 1)..4
        /\ conn.out \in {"neutral", "uptrend", "strong_uptrend"}

\* a series of 50 prices or more that falls all the way (price below both averages,
\* SMA20 below SMA50, RSI 0) is labelled 'neutral'
C27_Witness ==
    /\ conn.fn = "calculateTrendStrength" /\ Len(conn.prices) >= 50
    /\ \A i \in 2..Len(conn.prices) : conn.prices[i] < conn.prices[i - 1]
    /\ conn.out = "neutral"

\* the price and the change-percent of a member of the map in conn, from the
\* member's price and previous close
HasMember(sym) == sym \in DOMAIN conn.markets

MemberPrice(sym) == conn.markets[sym].price

\* the member's change-percent is above (below) num / den
MemberChangeAbove(sym, num, den) ==
    /\ HasMember(sym)
    /\ (conn.markets[sym].price - conn.markets[sym].previousClose) * 100 * den
          > num * conn.markets[sym].previousClose

MemberChangeBelow(sym, num, den) ==
    /\ HasMember(sym)
    /\ (conn.markets[sym].price - conn.markets[sym].previousClose) * 100 * den
          < num * conn.markets[sym].previousClose

\* C16: volatilityLevel is 'high' for a VIX price > 25, 'moderate' for > 18, else
\* 'low'; dollarStrength is 'strengthening' for a DXY change-percent > 0.5,
\* 'weakening' for < -0.5, else 'stable'; yieldEnvironment is 'high_yields' for a TNX
\* price > 4.5, 'normal' for > 3.5, else 'low_yields'
C16_SummaryThresholds ==
    conn.fn = "generateSummary" =>
        /\ conn.out.volatilityLevel =
              (IF HasMember("VIX") /\ MemberPrice("VIX") > 2500 THEN "high"
               ELSE IF HasMember("VIX") /\ MemberPrice("VIX") > 1800 THEN "moderate"
               ELSE "low")
        /\ conn.out.dollarStrength =
              (IF MemberChangeAbove("DXY", 1, 2) THEN "strengthening"
               ELSE IF MemberChangeBelow("DXY", 0 - 1, 2) THEN "weakening"
               ELSE "stable")
        /\ conn.out.yieldEnvironment =
              (IF HasMember("TNX") /\ MemberPrice("TNX") > 450 THEN "high_yields"
               ELSE IF HasMember("TNX") /\ MemberPrice("TNX") > 350 THEN "normal"
               ELSE "low_yields")

\* generateSummary applied to a map whose VIX, DXY and TNX are exactly on a threshold
C16_Witness ==
    /\ conn.fn = "generateSummary"
    /\ HasMember("VIX") /\ MemberPrice("VIX") = 2500
    /\ HasMember("DXY") /\ MemberPrice("DXY") = 10050
    /\ HasMember("TNX") /\ MemberPrice("TNX") = 450

\* the net score of the map in conn as the claim counts it
RiskScore ==
    Inc(MemberChangeAbove("SPY", 1, 2)) - Inc(MemberChangeBelow("SPY", 0 - 1, 2))
    + Inc(HasMember("VIX") /\ MemberPrice("VIX") < 1800)
    - Inc(HasMember("VIX") /\ MemberPrice("VIX") > 2500)
    + Inc(MemberChangeAbove("BTC", 2, 1)) - Inc(MemberChangeBelow("BTC", 0 - 2, 1))
    - Inc(MemberChangeAbove("GOLD", 1, 1)) + Inc(MemberChangeBelow("GOLD", 0 - 1, 1))

\* C17: assessRiskAppetite is 'risk_on' iff the net score is >= 2, 'risk_off' iff it
\* is <= -2, else 'neutral'; a missing member counts 0 and causes no error
C17_RiskAppetite ==
    conn.fn = "assessRiskAppetite" =>
        conn.out = (IF RiskScore >= 2 THEN "risk_on"
                    ELSE IF RiskScore <= 0 - 2 THEN "risk_off" ELSE "neutral")

\* assessRiskAppetite applied with SPY and BTC missing: risk-off by VIX and gold
C17_Witness ==
    /\ conn.fn = "assessRiskAppetite"
    /\ ~HasMember("SPY") /\ ~HasMember("BTC")
    /\ HasMember("VIX") /\ HasMember("GOLD")
    /\ conn.out = "risk_off"

\* the request for symbol s of the call in conn succeeded
FetchSucceeded(s) == conn.outcomes[s].kind = "result"

ItemsOfFeed(k) == SelectSeq(conn.out, LAMBDA item : item.sourceUrl = k)

InjectionPatterns == DelimiterTokens \o <<IgnorePhrase, YouAreNowPhrase>>

\* text contains one of the patterns, in any letter case
ContainsPattern(text) ==
    \E i \in 1..Len(text), k \in 1..Len(InjectionPatterns) :
        MatchAt(text, i, InjectionPatterns[k])

\* C21: for every input text the output of sanitizeText contains none of the known
\* injection patterns in any letter case, also when removing one pattern brings the
\* pieces of another together, and it has at most 5000 characters
C21_NoInjectionPattern ==
    conn.fn = "sanitizeText" => (~ContainsPattern(conn.out) /\ Len(conn.out) <= MAX_TEXT)

(***************************************************************************)
(* The markets route: GET /api/markets, /summary, /:symbol and             *)
(* /history/:symbol over marketCache and cacheTimestamp. Times are ms.     *)
(***************************************************************************)
\* const CACHE_TTL = 60000
CACHE_TTL == 60000

\* the time passing between two steps of the route
TICK == 30 * 1000

\* number of ticks
MaxTicks == 3

\* what fetchAllMarkets resolves with after k ticks: SPY, VIX and DXY fetched, the
\* other requests rejected
RouteSnapshots ==
    Seq1([k \in 1..(MaxTicks + 1) |->
            fetchAllMarkets([s \in SymbolSet |->
                               IF s \in {"SPY", "VIX", "DXY"} THEN SymbolResponses[8]
                               ELSE FetchRejects],
                            StartTime + (k - 1) * TICK)])

\* the snapshot fetchAllMarkets resolves with at time now
SnapshotAt(now) == RouteSnapshots[((now - StartTime) \div TICK) + 1]

\* the symbols asked for: one of the basket, and one that is not tracked
RouteSymbols == {"SPY", "XYZ"}

\* marketCache && cacheTimestamp && (now - cacheTimestamp) < CACHE_TTL
CacheFresh(cache, stamp, now) ==
    ~cache.isNull /\ stamp # 0 /\ (now - stamp) < CACHE_TTL

\* marketCache?.markets?.[symbol.toUpperCase()]
InCache(cache, symbol) == ~cache.isNull /\ symbol \in DOMAIN cache.markets

\* a response sent: the path, the status, whether the data came from the cache
\* without a fetch, the timestamp of the snapshot used (0: none), and the cache's
\* timestamp and the time when the handler read the cache
Response(path, status, cached, data, stamp, at) ==
    [path |-> path, status |-> status, cached |-> cached,
     snapshotTime |-> IF data.isNull THEN 0 ELSE data.timestamp,
     stamp |-> stamp, at |-> at]

\* the longest fetchAllMarkets can take: 16 symbols in 4 batches, each request with
\* a timeout of 10 s, and 200 ms between batches
MaxFetchTime == 4 * 10000 + 3 * 200

\* time passes (a fetch in progress does not outlast MaxFetchTime)
Tick ==
    /\ route.time < StartTime + MaxTicks * TICK
    /\ \A r \in 1..MaxReaders :
          route.reqs[r].pc = "fetching" =>
             route.time + TICK - route.reqs[r].now <= MaxFetchTime
    /\ route' = [route EXCEPT !.time = route.time + TICK]
    /\ UNCHANGED <<workerVars, gen, calc, conn, batch, stores>>

\* GET /api/markets up to its await: the cached snapshot if fresh, else a fetch
GetMarkets(r) ==
    /\ route.reqs[r].pc = "idle"
    /\ IF CacheFresh(route.marketCache, route.cacheTimestamp, route.time)
       THEN route' = [route EXCEPT
                        !.last = Response("/", 200, TRUE, route.marketCache,
                                          route.cacheTimestamp, route.time)]
       ELSE route' = [route EXCEPT
                        !.reqs[r] = [NoRequest EXCEPT !.pc = "fetching", !.path = "/",
                                                      !.now = route.time]]
    /\ UNCHANGED <<workerVars, gen, calc, conn, batch, stores>>

\* GET /api/markets after fetchAllMarkets has resolved: the cache is replaced
MarketsFetchedForRoute(r) ==
    /\ route.reqs[r].pc = "fetching" /\ route.reqs[r].path = "/"
    /\ LET data == SnapshotAt(route.time)
       IN  route' = [route EXCEPT
                          !.marketCache = data,
                          !.cacheTimestamp = route.reqs[r].now,
                          !.reqs[r] = NoRequest,
                          !.last = Response("/", 200, FALSE, data, route.reqs[r].now,
                                            route.reqs[r].now)]
    /\ UNCHANGED <<workerVars, gen, calc, conn, batch, stores>>

\* GET /api/markets/summary up to its first await: the cached snapshot if there is
\* one, else a fetch
GetSummary(r) ==
    /\ route.reqs[r].pc = "idle"
    /\ IF ~route.marketCache.isNull
       THEN route' = [route EXCEPT
                        !.reqs[r] = [NoRequest EXCEPT !.pc = "summarising",
                                        !.path = "/summary", !.now = route.time,
                                        !.data = route.marketCache]]
       ELSE route' = [route EXCEPT
                        !.reqs[r] = [NoRequest EXCEPT !.pc = "fetching",
                                        !.path = "/summary", !.now = route.time]]
    /\ UNCHANGED <<workerVars, gen, calc, conn, batch, stores>>

\* GET /api/markets/summary after fetchAllMarkets has resolved: the cache is filled
\* and stamped with the time of that moment
MarketsFetchedForSummary(r) ==
    /\ route.reqs[r].pc = "fetching" /\ route.reqs[r].path = "/summary"
    /\ LET data == SnapshotAt(route.time)
       IN  route' = [route EXCEPT
                          !.marketCache = data,
                          !.cacheTimestamp = route.time,
                          !.reqs[r] = [route.reqs[r] EXCEPT !.pc = "fetched",
                                                            !.data = data]]
    /\ UNCHANGED <<workerVars, gen, calc, conn, batch, stores>>

\* GET /api/markets/summary after generateMarketSummary has settled: the summary of
\* the snapshot, or 500 when it rejected
SummaryResponds(r) ==
    /\ route.reqs[r].pc \in {"summarising", "fetched"}
    /\ \E status \in {200, 500} :
          route' = [route EXCEPT
                      !.reqs[r] = NoRequest,
                      !.last = Response("/summary", status,
                                        route.reqs[r].pc = "summarising",
                                        route.reqs[r].data,
                                        IF route.reqs[r].pc = "summarising"
                                        THEN route.cacheTimestamp ELSE route.reqs[r].now,
                                        route.reqs[r].now)]
    /\ UNCHANGED <<workerVars, gen, calc, conn, batch, stores>>

\* GET /api/markets/:symbol up to its await: the symbol's entry of the cached
\* snapshot if it has one, else a fetch
GetSymbol(r) ==
    /\ route.reqs[r].pc = "idle"
    /\ \E symbol \in RouteSymbols :
          IF InCache(route.marketCache, symbol)
          THEN route' = [route EXCEPT
                           !.last = Response("/:symbol", 200, TRUE, route.marketCache,
                                             route.cacheTimestamp, route.time)]
          ELSE route' = [route EXCEPT
                           !.reqs[r] = [NoRequest EXCEPT !.pc = "fetching",
                                           !.path = "/:symbol", !.now = route.time,
                                           !.symbol = symbol]]
    /\ UNCHANGED <<workerVars, gen, calc, conn, batch, stores>>

\* GET /api/markets/:symbol after fetchAllMarkets has resolved: the symbol's entry or
\* 404; the cache is left as it is
MarketsFetchedForSymbol(r) ==
    /\ route.reqs[r].pc = "fetching" /\ route.reqs[r].path = "/:symbol"
    /\ LET data == SnapshotAt(route.time)
       IN  route' = [route EXCEPT
                          !.reqs[r] = NoRequest,
                          !.last = Response("/:symbol",
                                            IF route.reqs[r].symbol \in DOMAIN data.markets
                                            THEN 200 ELSE 404,
                                            FALSE, data, route.reqs[r].now,
                                            route.reqs[r].now)]
    /\ UNCHANGED <<workerVars, gen, calc, conn, batch, stores>>

\* GET /api/markets/history/:symbol: the closes of the cached entry, or 404; it never
\* fetches
GetHistory(r) ==
    /\ route.reqs[r].pc = "idle"
    /\ \E symbol \in RouteSymbols :
          IF InCache(route.marketCache, symbol)
          THEN route' = [route EXCEPT
                           !.last = Response("/history/:symbol", 200, TRUE,
                                             route.marketCache, route.cacheTimestamp,
                                             route.time)]
          ELSE route' = [route EXCEPT
                           !.last = Response("/history/:symbol", 404, FALSE,
                                             NoMarketData, route.cacheTimestamp,
                                             route.time)]
    /\ UNCHANGED <<workerVars, gen, calc, conn, batch, stores>>

RouteNext ==
    \/ Tick
    \/ \E r \in 1..MaxReaders : GetMarkets(r)
    \/ \E r \in 1..MaxReaders : MarketsFetchedForRoute(r)
    \/ \E r \in 1..MaxReaders : GetSummary(r)
    \/ \E r \in 1..MaxReaders : MarketsFetchedForSummary(r)
    \/ \E r \in 1..MaxReaders : SummaryResponds(r)
    \/ \E r \in 1..MaxReaders : GetSymbol(r)
    \/ \E r \in 1..MaxReaders : MarketsFetchedForSymbol(r)
    \/ \E r \in 1..MaxReaders : GetHistory(r)

RouteInit == Init /\ ~engine.openai

RouteSpec == RouteInit /\ [][RouteNext]_vars

\* C19: on every read path of the markets API a cached snapshot is served without
\* refetching only while its age is below the 60-second TTL, and the cache entry is
\* replaced as a whole: the timestamp held with a snapshot is the one written with it
\* (never later than the snapshot's own time)
C19_CacheInvalidatedByTTL ==
    /\ route.last.cached => (route.last.at - route.last.stamp) < CACHE_TTL
    /\ ~route.marketCache.isNull =>
          (route.cacheTimestamp > 0 /\ route.cacheTimestamp <= route.marketCache.timestamp)

\* the cache entry held is the one a GET /api/markets request stored with its last
\* response
StoredByGetMarkets ==
    /\ ~route.marketCache.isNull
    /\ route.last.path = "/" /\ ~route.last.cached
    /\ route.last.stamp = route.cacheTimestamp

\* request r of GET /api/markets completes after its fetch
GetMarketsCompletes(r) ==
    /\ route.reqs[r].pc = "fetching" /\ route.reqs[r].path = "/"
    /\ route'.reqs[r].pc = "idle"

\* C29: under any interleaving of overlapping GET /api/markets requests the cache
\* timestamp never decreases: once a request has stored a snapshot with timestamp t,
\* a request that completes later does not replace it with an entry whose timestamp
\* is earlier than t
C29_CacheTimestampNeverDecreases ==
    [][\A r \in 1..MaxReaders :
          (StoredByGetMarkets /\ GetMarketsCompletes(r)) =>
              route'.cacheTimestamp >= route.cacheTimestamp]_vars

(***************************************************************************)
(* fetchAllFeeds and fetchAllMarkets followed fetch by fetch: the batches  *)
(* of concurrent fetches, which settle in any order. Time is in ticks.     *)
(***************************************************************************)
\* const batchSize = 5
BatchSize == 5

\* number of fetches of a call: this.feeds.length, allSymbols.length
FetchCount(fn) == IF fn = "fetchAllFeeds" THEN Len(DEFAULT_FEEDS) ELSE Len(SYMBOLS)

\* the positions of the batch that begins after position start:
\* slice(i, i + batchSize)
BatchOf(fn, start) == (start + 1)..Min(start + BatchSize, FetchCount(fn))

\* what the fetch at position k resolves with when it settles at time now: the items
\* of the feed, or the entry of the symbol (null for a failed quote)
FetchResult(fn, outcomes, k, now) ==
    IF fn = "fetchAllFeeds" THEN fetchFeed(k, outcomes[k], now)
    ELSE LET data == fetchYahooQuote(outcomes[SYMBOLS[k]], now)
         IN  IF data.isNull THEN [isNull |-> TRUE]
             ELSE [isNull |-> FALSE, entry |-> MarketEntry(SYMBOLS[k], data)]

\* the results of a batch merged into what was gathered before, in the batch's order:
\* results.forEach(items => allItems.push(...items)), or
\* batchResults.forEach((result, idx) => { if (result) results[symbol] = result })
MergeBatch(fn, acc, start, settled) ==
    LET positions == BatchOf(fn, start)
        n         == Cardinality(positions)
    IN  IF fn = "fetchAllFeeds"
        THEN acc \o Flatten(Seq1([j \in 1..n |-> settled[start + j]]))
        ELSE LET ok == {k \in positions : ~settled[k].isNull}
             IN  [s \in DOMAIN acc \cup {SYMBOLS[k] : k \in ok} |->
                    IF \E k \in ok : SYMBOLS[k] = s
                    THEN settled[CHOOSE k \in ok : SYMBOLS[k] = s].entry
                    ELSE acc[s]]

\* what the call returns once the last batch is merged
BatchResult(fn, acc, now) ==
    IF fn = "fetchAllFeeds" THEN SortNewestFirst(acc)
    ELSE [isNull |-> FALSE, timestamp |-> now, markets |-> acc,
          summary |-> generateSummary(acc)]

\* the answers of the feeds in a followed call: two feeds of the first batch with an
\* undated entry each; dated entries only; and two scenarios of the worker
BatchFeedScenarios ==
    << [AllFeedsFail EXCEPT ![1] = FeedOk(<<Entry(<<65>>, <<47, 1>>, NoDate)>>),
                            ![2] = FeedOk(<<Entry(<<66>>, <<47, 2>>, NoDate), BulkEntry(3)>>),
                            ![7] = FeedOk(<<BulkEntry(4)>>)],
       [AllFeedsFail EXCEPT ![1] = FeedOk(<<BulkEntry(2), BulkEntry(6)>>),
                            ![4] = FeedOk(<<BulkEntry(4), BulkEntry(6)>>),
                            ![12] = FeedOk(<<BulkEntry(1)>>)],
       FeedScenarios[2],
       FeedScenarios[3] >>

\* the answers of the quote provider in a followed call: SPY, VIX and TYX fetched, or
\* none
BatchMarketScenarios ==
    << [s \in SymbolSet |-> IF s \in {"SPY", "VIX", "TYX"} THEN SymbolResponses[8]
                            ELSE FetchRejects],
       [s \in SymbolSet |-> HttpError] >>

\* a caller calls fetchAllFeeds or fetchAllMarkets: the fetches of the first batch
\* are started
CallBatched ==
    /\ batch.pc = "idle"
    /\ \/ \E s \in 1..Len(BatchFeedScenarios) :
             batch' = [NoBatch EXCEPT !.fn = "fetchAllFeeds", !.pc = "batch",
                                      !.outcomes = BatchFeedScenarios[s], !.time = 1,
                                      !.inflight = BatchOf("fetchAllFeeds", 0)]
       \/ \E s \in 1..Len(BatchMarketScenarios) :
             batch' = [NoBatch EXCEPT !.fn = "fetchAllMarkets", !.pc = "batch",
                                      !.outcomes = BatchMarketScenarios[s], !.time = 1,
                                      !.inflight = BatchOf("fetchAllMarkets", 0),
                                      !.acc = EmptyObj]
    /\ UNCHANGED <<workerVars, gen, calc, conn, route, stores>>

\* the fetch at position k settles, at the time of the fetch settled before it or a
\* tick later. When it is the last of its batch Promise.all resolves: the batch is
\* merged, and the next batch is started (fetchAllFeeds), the 200 ms pause begins
\* (fetchAllMarkets), or the call returns
FetchSettles(k) ==
    /\ batch.pc = "batch"
    /\ k \in batch.inflight
    /\ \E dt \in {0, 1} :
          LET now     == batch.time + dt
              settled == Put(batch.settled, k,
                             FetchResult(batch.fn, batch.outcomes, k, now))
              acc     == MergeBatch(batch.fn, batch.acc, batch.start, settled)
              more    == batch.start + BatchSize < FetchCount(batch.fn)
          IN  IF batch.inflight # {k}
              THEN batch' = [batch EXCEPT !.time = now, !.settled = settled,
                                          !.inflight = batch.inflight \ {k}]
              ELSE IF ~more
              THEN batch' = [batch EXCEPT !.time = now, !.settled = EmptyObj,
                                          !.inflight = {}, !.acc = acc, !.pc = "done",
                                          !.out = BatchResult(batch.fn, acc, now)]
              ELSE IF batch.fn = "fetchAllFeeds"
              THEN batch' = [batch EXCEPT !.time = now, !.settled = EmptyObj, !.acc = acc,
                                          !.start = batch.start + BatchSize,
                                          !.inflight = BatchOf(batch.fn,
                                                               batch.start + BatchSize)]
              ELSE batch' = [batch EXCEPT !.time = now, !.settled = EmptyObj, !.acc = acc,
                                          !.inflight = {}, !.pc = "pause"]
    /\ UNCHANGED <<workerVars, gen, calc, conn, route, stores>>

\* await new Promise(r => setTimeout(r, 200)) is over: the next batch is started
PauseOver ==
    /\ batch.pc = "pause"
    /\ batch' = [batch EXCEPT !.pc = "batch", !.time = batch.time + 1,
                              !.start = batch.start + BatchSize,
                              !.inflight = BatchOf(batch.fn, batch.start + BatchSize)]
    /\ UNCHANGED <<workerVars, gen, calc, conn, route, stores>>

\* the caller has taken the result
BatchReturns ==
    /\ batch.pc = "done"
    /\ batch' = NoBatch
    /\ UNCHANGED <<workerVars, gen, calc, conn, route, stores>>

BatchNext ==
    \/ CallBatched
    \/ \E k \in 1..Len(SYMBOLS) : FetchSettles(k)
    \/ PauseOver
    \/ BatchReturns

BatchSpec == RouteInit /\ [][BatchNext]_vars

\* the items of a list by their fingerprints, in order
HashesOf(items) == Seq1([i \in 1..Len(items) |-> items[i].contentHash])

\* the entries of a map without the time of their fetch
WithoutFetchTime(markets) == [s \in DOMAIN markets |-> [markets[s] EXCEPT !.fetchedAt = 0]]

\* C24: the result of a call does not depend on the order in which the fetches of a
\* batch complete: fetchAllFeeds yields the items in the order it yields when the
\* fetches complete together, fetchAllMarkets yields the same map (the times of the
\* fetches set aside); and the fetches in flight are those of one batch, at most 5
C24_OrderIndependent ==
    /\ batch.inflight \subseteq BatchOf(batch.fn, batch.start)
    /\ Cardinality(batch.inflight) <= BatchSize
    /\ (batch.pc = "done" /\ batch.fn = "fetchAllFeeds") =>
          HashesOf(batch.out) = HashesOf(fetchAllFeeds(batch.outcomes, 1))
    /\ (batch.pc = "done" /\ batch.fn = "fetchAllMarkets") =>
          WithoutFetchTime(batch.out.markets)
             = WithoutFetchTime(fetchAllMarkets(batch.outcomes, 1).markets)

(***************************************************************************)
(* The recent-history buffers of a server that has been running for a      *)
(* while: the worker's eventCards and insights, the events route's         *)
(* eventCards (POST /api/events/cards/generate) and the insights route's   *)
(* insightsStore (POST /api/insights/generate, DELETE /api/insights/:id).  *)
(***************************************************************************)
\* number of requests made to the events route and the insights route
MaxPosts == 2

\* 24 * 60 * 60 * 1000 ms in timer periods of 15 minutes
DAY == 24 * 4

\* the news item, the event card and the insight of the cycle that ran k periods ago
\* (one new item from Reuters Business per cycle, no backend answer)
OldItem(k) == fetchFeed(3, FeedOk(<<BulkEntry(600 + k)>>), 0 - k)[1]

OldCard(k) ==
    Put(Put(generateMockEventCard(<<OldItem(k)>>, 0 - k), "id",
            [kind |-> "event", at |-> 0 - k, category |-> OldItem(k).category]),
        "category", OldItem(k).category)

OldInsight(k) ==
    Put(generateMockInsight(MarketSnapshots(0 - k)[2], <<OldCard(k)>>, 0 - k), "id",
        [kind |-> "insight", at |-> 0 - k])

\* the buffers after n such cycles, newest first
OldItems(n) == Seq1([k \in 1..n |-> OldItem(k)])

OldCards(n) == Seq1([k \in 1..n |-> OldCard(k)])

OldInsights(n) == Seq1([k \in 1..n |-> OldInsight(k)])

\* the state after CARD_RETENTION - 1 cycles and as many requests to each route, without
\* OPENAI_API_KEY: the card buffers one below their bound, the insight buffers at theirs
HistoryInit ==
    /\ engine = NewEngine(FALSE, "")
    /\ newsItems = OldItems(CARD_RETENTION - 1)
    /\ marketData = MarketSnapshots(0 - 1)[2]
    /\ eventCards = OldCards(CARD_RETENTION - 1)
    /\ insights = OldInsights(INSIGHT_RETENTION)
    /\ isRunning = FALSE
    /\ clock = 0
    /\ calls = 0
    /\ cyc = [i \in 1..MaxCalls |-> NoLocals("unused")]
    /\ gen = NoGen
    /\ calc = NoCalc
    /\ conn = NoConn
    /\ route = NoRoute
    /\ batch = NoBatch
    /\ stores = [newsItems     |-> OldItems(1),
                 eventCards    |-> OldCards(CARD_RETENTION - 1),
                 insightsStore |-> OldInsights(INSIGHT_RETENTION),
                 requests      |-> 0]

\* GET /api/events/news with refresh=true (or a stale store): newsItems = freshItems
GetNews ==
    /\ stores.requests < MaxPosts
    /\ \E s \in {2, 3} :
          stores' = [stores EXCEPT !.requests = @ + 1,
                                   !.newsItems = fetchAllFeeds(FeedScenarios[s], clock)]
    /\ UNCHANGED <<workerVars, gen, calc, conn, route, batch>>

\* the card POST /cards/generate builds for one group
RouteCard(category, items, reply) ==
    LET outcome == generateEventCard(engine, items, reply, clock)
        tagged  == Put(Put(outcome.value, "id",
                           [kind |-> "event", at |-> clock, category |-> category]),
                       "category", category)
    IN  Put(Put(Put(tagged, "sourceCount", Len(items)),
                "sourceUrls", Seq1([i \in 1..Len(items) |-> items[i].url])),
            "sourceNames", Seq1([i \in 1..Len(items) |-> items[i].sourceName]))

\* POST /api/events/cards/generate: one card per category of the 10 first items
\* published in the last 24 hours, put in front of the store, which is cut to 100
\* (generateEventCard settles the same way for every group of the request)
PostCardsGenerate ==
    /\ stores.requests < MaxPosts
    /\ \E r \in ReplyChoices(WorkerCardReplies) :
          LET recentNews == Take(SelectSeq(stores.newsItems,
                                           LAMBDA item : clock - item.publishedAt < DAY), 10)
              categories == CategoriesOf(recentNews)
              newCards   == Seq1([k \in 1..Len(categories) |->
                                    RouteCard(categories[k],
                                              GroupOf(recentNews, categories[k]),
                                              WorkerCardReplies[r])])
          IN  stores' = [stores EXCEPT
                            !.requests = @ + 1,
                            !.eventCards = IF recentNews = <<>> THEN @
                                           ELSE Take(newCards \o @, CARD_RETENTION)]
    /\ UNCHANGED <<workerVars, gen, calc, conn, route, batch>>

\* the store left as long as it has become
PostInsightsGenerate_NoCut ==
    /\ stores.requests < MaxPosts
    /\ \E m \in 1..Len(MarketSnapshots(clock)), c \in 1..Len(EngineCardLists),
          r \in ReplyChoices(WorkerInsightReplies) :
          LET outcome == generateInsight(engine, MarketSnapshots(clock)[m],
                                         EngineCardLists[c], WorkerInsightReplies[r], clock)
              insight == Put(outcome.value, "id", [kind |-> "insight", at |-> clock])
          IN  stores' = [stores EXCEPT !.requests = @ + 1,
                                       !.insightsStore = <<insight>> \o @]
    /\ UNCHANGED <<workerVars, gen, calc, conn, route, batch>>

\* POST /api/insights/generate: the insight is put in front of the store, which is cut
\* to 50 when it is longer
PostInsightsGenerate ==
    /\ stores.requests < MaxPosts
    /\ \E m \in 1..Len(MarketSnapshots(clock)), c \in 1..Len(EngineCardLists),
          r \in ReplyChoices(WorkerInsightReplies) :
          LET outcome   == generateInsight(engine, MarketSnapshots(clock)[m],
                                           EngineCardLists[c], WorkerInsightReplies[r], clock)
              insight   == Put(outcome.value, "id", [kind |-> "insight", at |-> clock])
              unshifted == <<insight>> \o stores.insightsStore
          IN  stores' = [stores EXCEPT
                            !.requests = @ + 1,
                            !.insightsStore = IF Len(unshifted) > INSIGHT_RETENTION
                                              THEN Take(unshifted, INSIGHT_RETENTION)
                                              ELSE unshifted]
    /\ UNCHANGED <<workerVars, gen, calc, conn, route, batch>>

\* s without its element at index (Array.prototype.splice(index, 1))
Splice(s, index) == SubSeq(s, 1, index - 1) \o SubSeq(s, index + 1, Len(s))

\* DELETE /api/insights/:id for the id of the newest or of the oldest insight held
DeleteInsight ==
    /\ stores.requests < MaxPosts
    /\ stores.insightsStore # <<>>
    /\ \E index \in {1, Len(stores.insightsStore)} :
          stores' = [stores EXCEPT !.requests = @ + 1,
                                   !.insightsStore = Splice(@, index)]
    /\ UNCHANGED <<workerVars, gen, calc, conn, route, batch>>

\* the worker has made its calls and no cycle is in progress
WorkerQuiet == calls = MaxCalls /\ Active = {}

\* The stores of the routes and the buffers of the worker are separate: no request
\* writes a variable of the worker, no cycle a store of a route. The requests are
\* taken after the worker's cycles, which leaves out no state of either side.
HistoryNext ==
    \/ Next
    \/ WorkerQuiet /\ GetNews
    \/ WorkerQuiet /\ PostCardsGenerate
    \/ WorkerQuiet /\ PostInsightsGenerate
    \/ WorkerQuiet /\ DeleteInsight

HistorySpec == HistoryInit /\ [][HistoryNext]_vars

\* after is before with entries put in front, none of the entries of before changed
\* or reordered, and entries dropped only from the end and only down to the bound
PushedFront(before, after, bound) ==
    \E n \in 0..Len(after) :
        /\ Len(after) - n <= Len(before)
        /\ SubSeq(after, n + 1, Len(after)) = SubSeq(before, 1, Len(after) - n)
        /\ Len(after) - n < Len(before) => Len(after) = bound

\* C26: whenever no cycle is in progress the worker's eventCards hold at most 100
\* cards; the worker's insights and the insights route's insightsStore hold at most 50
\* insights and the events route's eventCards at most 100 cards; a generation puts
\* its entries in front, changes no entry held before, and drops entries only from
\* the end and only at the bound (a deletion takes one insight out of insightsStore)
C26_BoundedBuffers ==
    /\ [](/\ Active = {} => Len(eventCards) <= CARD_RETENTION
          /\ Len(insights) <= INSIGHT_RETENTION
          /\ Len(stores.eventCards) <= CARD_RETENTION
          /\ Len(stores.insightsStore) <= INSIGHT_RETENTION)
    /\ [][/\ PushedFront(eventCards, eventCards', CARD_RETENTION)
          /\ PushedFront(insights, insights', INSIGHT_RETENTION)
          /\ PushedFront(stores.eventCards, stores'.eventCards, CARD_RETENTION)
          /\ \/ PushedFront(stores.insightsStore, stores'.insightsStore, INSIGHT_RETENTION)
             \/ \E index \in 1..Len(stores.insightsStore) :
                   stores'.insightsStore = Splice(stores.insightsStore, index)]_vars

\* a cycle has added two cards to 99 and ended, the oldest card was dropped, and a
\* request has added two cards to the 99 of the events route
C26_Witness ==
    /\ Active = {} /\ calls > 0
    /\ Len(eventCards) = CARD_RETENTION
    /\ eventCards[1].id.at > 0 /\ eventCards[2].id.at > 0
    /\ eventCards[CARD_RETENTION] = OldCard(CARD_RETENTION - 2)
    /\ Len(stores.eventCards) = CARD_RETENTION
    /\ stores.eventCards[1].id.at >= 0 /\ stores.eventCards[2].id.at >= 0

====
